---- MODULE Spec2Model ----
(***************************************************************************)
(* The ingest / debounce / translate / broadcast pipeline of               *)
(* server/server.js: the SSE subscriber registry, the per-language pending *)
(* batches with their debounce and max-wait timers, the asynchronous       *)
(* translateText calls of flushLang, the session log and the events        *)
(* written to every subscriber.                                            *)
(*                                                                         *)
(* Text is a sequence of one-character strings, a JavaScript Map is a      *)
(* function whose DOMAIN is its key set (iterated in insertion order,      *)
(* which for sseClients is ascending client id), an optional JSON field    *)
(* is a sequence of length 0 (undefined) or 1.                             *)
(***************************************************************************)
EXTENDS Integers, Sequences, FiniteSets, TLC

\* ------------------------------------------------------------------ bounds
\* HTTP requests to /ingest the model lets the producer make.
MaxIngest == 2
\* SSE connections ever opened.
MaxClients == 2
\* pings written over all heartbeat intervals.
MaxPings == 1
\* /ingest requests of the timed specification (a burst that outlasts
\* MAX_WAIT_MS needs more than MAX_WAIT_MS / DEBOUNCE_MS of them).
MaxBurst == 124
\* direct invocations of flushLang in a row for one language.
MaxReflush == 2
\* /visitor-settings requests, and /ingest requests of the run that has them.
MaxSettings == 1
MaxEventIngest == 1
\* The run that fills the session log: /ingest requests up to this number
\* (the log is full with the 1000th batch and evicts with the next ones), and
\* SSE connections up to this one.
MaxLogIngest == 1002
MaxLogClients == 2

\* --------------------------------------------------------------- constants
DEBOUNCE_MS == 50
MAX_WAIT_MS == 3000
HEARTBEAT_MS == 15000
MAX_TEXT_LEN == 1000
LOG_MAX == 1000
\* The TTS rate is kept in tenths: clamped to [0.5, 2.0], 1.0 when not given.
RATE_MIN == 5
RATE_MAX == 20
RATE_DEFAULT == 10

SUPPORTED_LANGS == {"en", "es", "fr", "de", "it", "pt", "zh", "ja", "ko", "ar", "ru"}

\* -------------------------------------------------------------------- text
SP == " "

\* Array.prototype.join(' '): the texts in order, one separator between two.
RECURSIVE Join(_)
Join(texts) ==
  IF Len(texts) = 0 THEN << >>
  ELSE IF Len(texts) = 1 THEN texts[1]
  ELSE texts[1] \o <<SP>> \o Join(Tail(texts))

\* String.prototype.trim(): white space removed at both ends.
RECURSIVE TrimStart(_)
TrimStart(s) == IF Len(s) > 0 /\ s[1] = SP THEN TrimStart(Tail(s)) ELSE s

RECURSIVE TrimEnd(_)
TrimEnd(s) ==
  IF Len(s) > 0 /\ s[Len(s)] = SP THEN TrimEnd(SubSeq(s, 1, Len(s) - 1)) ELSE s

Trim(s) == TrimEnd(TrimStart(s))

\* String.prototype.toLowerCase() on the language tags the model uses.
ToLowerCase(s) ==
  CASE s = "EN" -> "en"
    [] s = "IT" -> "it"
    [] OTHER -> s

\* -------------------------------------------------------------------- maps
EmptyMap == [k \in {} |-> k]
Has(m, k) == k \in DOMAIN m
MapSet(m, k, v) == [x \in DOMAIN m \cup {k} |-> IF x = k THEN v ELSE m[x]]
MapDelete(m, k) == [x \in DOMAIN m \ {k} |-> m[x]]

Min(S) == CHOOSE x \in S : \A y \in S : x <= y

\* The ids of a set of naturals in ascending order.
RECURSIVE Ascending(_)
Ascending(S) == IF S = {} THEN << >> ELSE <<Min(S)>> \o Ascending(S \ {Min(S)})


\* ------------------------------------------------------------------- state
VARIABLES
  sseClients,             \* Map clientId -> [lang, connectedAt]: the registry
  conn,                   \* open connection -> "live" | "broken": whether a
                          \* write to its res succeeds or throws; a connection
                          \* leaves the map with its 'close' event
  wire,                   \* open connection -> the events written to res, in order
  hbTimers,               \* client ids whose heartbeat interval is active
  hbLeft,                 \* Map client id -> ms until its interval fires next
  clientCounter,
  globalEventId,
  totalChunksTranslated,
  sessionLog,             \* sequence of entries, oldest first
  visitorSettings,        \* Map lang -> [ttsRate], the rate in tenths
  settingsHttp,           \* the response to the last /visitor-settings request
  nSettings,              \* /visitor-settings requests handled so far
  statusHttp,             \* the response to the last /status request
  suggestedPresets,       \* object lang (as sent) -> preset name
  presetHttp,             \* the response to the last /preset-suggest request
  lastSuggested,          \* language (in lower case) -> the preset of the last
                          \* suggestion recorded for it, however it was spelled
  pendingByLang,          \* Map lang -> [texts, ts, seq, maxTimer], with what
                          \* the properties need (ids, heardBy, seqs, stamps)
  timerByLang,            \* Map lang -> handle of the debounce timeout
  timers,                 \* the runtime's active timeouts:
                          \* Map handle -> [kind, lang, left (ms until due)]
  timerSeq,               \* timeout handles created so far
  calls,                  \* the translateText calls flushLang has made, in order:
                          \* [lang, batch, sourceText, flushStartMs, status,
                          \* translated], with the id of the call's chunk event
                          \* (chunkId), the count its broadcast returned
                          \* (sent) and the last client id given out when
                          \* the call was made (joined)
  http,                   \* the response to the last /ingest request
  nIngest,                \* /ingest requests handled so far
  flushCount,             \* lang -> flushLang(lang) invocations since the
                          \* language's last admitted fragment
  clock,                  \* Date.now(), in ms since the server started
  rateLimits,             \* Map <<ip, path>> -> [count, resetAt]
  burst                   \* the timed run's admissions: [n, first, last, maxGap, accepted]

vars == <<sseClients, conn, wire, hbTimers, clientCounter, globalEventId,
          totalChunksTranslated, sessionLog, visitorSettings, pendingByLang,
          timerByLang, timers, timerSeq, calls, http, nIngest, flushCount,
          clock, burst, settingsHttp, nSettings, statusHttp, suggestedPresets,
          presetHttp, lastSuggested, hbLeft, rateLimits>>

registry == <<sseClients, conn, wire, hbTimers, hbLeft, clientCounter>>
pipeline == <<pendingByLang, timerByLang, timers, timerSeq, flushCount>>
output == <<globalEventId, totalChunksTranslated, sessionLog>>
timing == <<clock, burst, rateLimits>>
admin == <<visitorSettings, settingsHttp, nSettings, statusHttp,
           suggestedPresets, presetHttp, lastSuggested>>

NoResponse == [status |-> 0]

Init ==
  /\ sseClients = EmptyMap
  /\ conn = EmptyMap
  /\ wire = EmptyMap
  /\ hbTimers = {}
  /\ hbLeft = EmptyMap
  /\ clientCounter = 0
  /\ globalEventId = 0
  /\ totalChunksTranslated = 0
  /\ sessionLog = << >>
  /\ visitorSettings = EmptyMap
  /\ settingsHttp = NoResponse
  /\ nSettings = 0
  /\ statusHttp = NoResponse
  /\ suggestedPresets = EmptyMap
  /\ presetHttp = NoResponse
  /\ lastSuggested = EmptyMap
  /\ pendingByLang = EmptyMap
  /\ timerByLang = EmptyMap
  /\ timers = EmptyMap
  /\ timerSeq = 0
  /\ calls = << >>
  /\ http = NoResponse
  /\ nIngest = 0
  /\ flushCount = EmptyMap
  /\ clock = 0
  /\ rateLimits = EmptyMap
  /\ burst = [n |-> 0, first |-> 0, last |-> 0, maxGap |-> 0, accepted |-> TRUE]

\* ------------------------------------------------ registry and broadcast
\* The registry entries of one language.
Receivers(lk) == {id \in DOMAIN sseClients : sseClients[id].lang = lk}

\* sseSend(res, payload): res.write throws on a broken connection.
CanWrite(id) == conn[id] = "live"

\* A loop that a failed write ends: only the entries before the first failure
\* are written to.
ReachedUntilFailure(lk) ==
  {id \in Receivers(lk) :
     CanWrite(id) /\ \A j \in Receivers(lk) : j < id => CanWrite(j)}

\* A loop without `if (client.lang !== lang) continue`.
ReachedAnyLang(lk) == {id \in DOMAIN sseClients : CanWrite(id)}

\* broadcastToLang(lang, payload): every entry of the language is tried, in
\* registry order; a failed write deletes that entry and the loop goes on.
Reached(lk) == {id \in Receivers(lk) : CanWrite(id)}

\* A loop that deletes every entry whose connection is broken, whatever its
\* language.
PrunedAnyLang(lk) == {id \in DOMAIN sseClients : ~CanWrite(id)}

Pruned(lk) == {id \in Receivers(lk) : ~CanWrite(id)}

\* A loop that writes the payload twice to every entry.
WireAfterBroadcastTwice(lk, payload) ==
  [id \in DOMAIN wire |->
     IF id \in Reached(lk) THEN wire[id] \o <<payload, payload>> ELSE wire[id]]

WireAfterBroadcast(lk, payload) ==
  [id \in DOMAIN wire |->
     IF id \in Reached(lk) THEN Append(wire[id], payload) ELSE wire[id]]

\* A catch that only logs: the entries whose write failed stay.
ClientsKept(lk) == sseClients

ClientsAfterBroadcast(lk) ==
  [id \in DOMAIN sseClients \ Pruned(lk) |-> sseClients[id]]

BroadcastToLang(lk, payload) ==
  /\ wire' = WireAfterBroadcast(lk, payload)
  /\ sseClients' = ClientsAfterBroadcast(lk)

SentCount(lk) == Cardinality(Reached(lk))

\* ---------------------------------------------------------- SSE endpoint
\* The language tags a receiver may ask for.
SseLangs == {"en", "it"}

HelloEvent(eid, lang, clientId) ==
  [id |-> <<eid>>, event |-> "hello", data |-> [lang |-> lang, clientId |-> clientId]]

\* The settings event of a late joiner is sent without an id.
SettingsOnConnect(settings) ==
  [id |-> << >>, event |-> "settings", data |-> settings]

PingEvent(t) == [id |-> << >>, event |-> "ping", data |-> [t |-> t]]

\* A handler that says hello and replays nothing.
SseConnectWithoutReplay(queryLang) ==
  LET lang == ToLowerCase(queryLang)
      clientId == clientCounter + 1
      hello == HelloEvent(globalEventId + 1, lang, clientId)
  IN /\ clientCounter' = clientId
     /\ sseClients' = MapSet(sseClients, clientId,
                             [lang |-> lang, connectedAt |-> clock])
     /\ conn' = MapSet(conn, clientId, "live")
     /\ globalEventId' = globalEventId + 1
     /\ wire' = MapSet(wire, clientId, <<hello>>)
     /\ hbTimers' = hbTimers \cup {clientId}
     /\ hbLeft' = MapSet(hbLeft, clientId, HEARTBEAT_MS)
     /\ UNCHANGED <<totalChunksTranslated, sessionLog, admin, pipeline,
                    calls, http, nIngest, timing>>

\* app.get('/sse'): register, say hello, replay the settings, start the heartbeat.
SseConnect(queryLang) ==
  LET lang == ToLowerCase(queryLang)
      clientId == clientCounter + 1
      hello == HelloEvent(globalEventId + 1, lang, clientId)
      sent == IF Has(visitorSettings, lang)
                THEN <<hello, SettingsOnConnect(visitorSettings[lang])>>
                ELSE <<hello>>
  IN /\ clientCounter' = clientId
     /\ sseClients' = MapSet(sseClients, clientId,
                             [lang |-> lang, connectedAt |-> clock])
     /\ conn' = MapSet(conn, clientId, "live")
     /\ globalEventId' = globalEventId + 1
     /\ wire' = MapSet(wire, clientId, sent)
     /\ hbTimers' = hbTimers \cup {clientId}
     /\ hbLeft' = MapSet(hbLeft, clientId, HEARTBEAT_MS)
     /\ UNCHANGED <<totalChunksTranslated, sessionLog, admin, pipeline,
                    calls, http, nIngest, timing>>

\* A close that gives up the translations under way for a language that is
\* left without a registry entry.
CloseCancelsInFlight(clientId) ==
  /\ Has(conn, clientId)
  /\ conn' = MapDelete(conn, clientId)
  /\ wire' = MapDelete(wire, clientId)
  /\ hbTimers' = hbTimers \ {clientId}
  /\ hbLeft' = MapDelete(hbLeft, clientId)
  /\ sseClients' = MapDelete(sseClients, clientId)
  /\ calls' = [c \in 1..Len(calls) |->
                IF /\ calls[c].status = "pending"
                   /\ \A id \in DOMAIN sseClients' :
                        sseClients'[id].lang # calls[c].lang
                  THEN [calls[c] EXCEPT !.status = "failed"]
                  ELSE calls[c]]
  /\ UNCHANGED <<clientCounter, output, admin, pipeline, http, nIngest, timing>>

\* req.on('close'): the heartbeat is cleared and the entry deleted.
Close(clientId) ==
  /\ Has(conn, clientId)
  /\ conn' = MapDelete(conn, clientId)
  /\ wire' = MapDelete(wire, clientId)
  /\ hbTimers' = hbTimers \ {clientId}
  /\ hbLeft' = MapDelete(hbLeft, clientId)
  /\ sseClients' = MapDelete(sseClients, clientId)
  /\ UNCHANGED <<clientCounter, output, admin, pipeline, calls,
                 http, nIngest, timing>>

\* The connection dies without the server being told: writes throw from now on.
ConnectionBreaks(clientId) ==
  /\ Has(conn, clientId)
  /\ conn[clientId] = "live"
  /\ conn' = [conn EXCEPT ![clientId] = "broken"]
  /\ UNCHANGED <<sseClients, wire, hbTimers, hbLeft, clientCounter, output,
                 admin, pipeline, calls, http, nIngest, timing>>

Pings(w) == Cardinality({i \in 1..Len(w) : w[i].event = "ping"})

RECURSIVE SumPings(_)
SumPings(ids) ==
  IF ids = {} THEN 0
  ELSE LET id == Min(ids) IN Pings(wire[id]) + SumPings(ids \ {id})

PingsWritten == SumPings(DOMAIN wire)

\* A callback whose catch only logs: the entry stays and the interval goes on.
HeartbeatKeepsEntry(clientId) ==
  /\ clientId \in hbTimers
  /\ IF CanWrite(clientId)
       THEN wire' = [wire EXCEPT ![clientId] = Append(@, PingEvent(clock))]
       ELSE UNCHANGED wire
  /\ hbLeft' = [hbLeft EXCEPT ![clientId] = HEARTBEAT_MS]
  /\ UNCHANGED <<sseClients, hbTimers, conn, clientCounter, output, admin,
                 pipeline, calls, http, nIngest, timing>>

\* The setInterval callback of one connection: a ping, or on a failed write
\* the interval is cleared and the entry deleted.
Heartbeat(clientId) ==
  /\ clientId \in hbTimers
  /\ IF CanWrite(clientId)
       THEN /\ wire' = [wire EXCEPT ![clientId] = Append(@, PingEvent(clock))]
            /\ hbLeft' = [hbLeft EXCEPT ![clientId] = HEARTBEAT_MS]
            /\ UNCHANGED <<sseClients, hbTimers>>
       ELSE /\ hbTimers' = hbTimers \ {clientId}
            /\ hbLeft' = MapDelete(hbLeft, clientId)
            /\ sseClients' = MapDelete(sseClients, clientId)
            /\ UNCHANGED wire
  /\ UNCHANGED <<conn, clientCounter, output, admin, pipeline, calls,
                 http, nIngest, timing>>

\* ------------------------------------------------------- request bodies
\* The lang of a request body is a JSON value: its text, and whether it is a
\* string or a number. !lang: no lang, the empty string and the number 0.
FalsyLang(req) ==
  \/ req.lang = << >>
  \/ req.lang[1] = ""
  \/ (req.langType = "number" /\ req.lang[1] = "0")

\* lang.toLowerCase() of a lang that is not a string throws.
TYPE_ERROR == "TypeError: lang.toLowerCase is not a function"

\* What express answers when a handler throws: 500, no JSON body.
ServerError == [status |-> 500]

\* --------------------------------------------------------------- /status
\* byLang: how many registry entries each language present has.
ByLang ==
  [l \in {sseClients[id].lang : id \in DOMAIN sseClients} |->
     Cardinality(Receivers(l))]

\* app.get('/status'): a report of the state, which it leaves alone.
Status ==
  /\ statusHttp' = [status |-> 200,
                    clients |-> Cardinality(DOMAIN sseClients),
                    byLang |-> ByLang,
                    uptime |-> clock \div 1000,
                    totalChunksTranslated |-> totalChunksTranslated,
                    sessionLogEntries |-> Len(sessionLog),
                    pendingLangs |-> DOMAIN pendingByLang]
  /\ UNCHANGED <<registry, output, visitorSettings, settingsHttp, nSettings,
                 suggestedPresets, presetHttp, lastSuggested, pipeline, calls,
                 http, nIngest, timing>>

\* ------------------------------------------------------ /visitor-settings
\* Math.min(2.0, Math.max(0.5, parseFloat(ttsRate) || 1.0)): a rate that is
\* not given, not a number or zero counts as 1.0.
ClampRate(ttsRate) ==
  LET parsed == IF ttsRate = << >> \/ ttsRate = <<0>> THEN RATE_DEFAULT ELSE ttsRate[1]
      atLeast == IF parsed < RATE_MIN THEN RATE_MIN ELSE parsed
  IN IF atLeast > RATE_MAX THEN RATE_MAX ELSE atLeast

\* A settings event numbered with `globalEventId++`: the value before the
\* increment.
SettingsEventStaleId(eid, rate) ==
  [id |-> <<eid - 1>>, event |-> "settings", data |-> [ttsRate |-> rate]]

SettingsEvent(eid, rate) ==
  [id |-> <<eid>>, event |-> "settings", data |-> [ttsRate |-> rate]]

\* app.post('/visitor-settings'): store the clamped rate of the language and
\* broadcast it to the language's receivers.
VisitorSettings(req) ==
  /\ nSettings' = nSettings + 1
  /\ IF FalsyLang(req)
       THEN /\ settingsHttp' = [status |-> 400, ok |-> FALSE, error |-> "Missing lang"]
            /\ UNCHANGED <<sseClients, wire, globalEventId, visitorSettings>>
       ELSE IF req.langType # "string"
       THEN /\ settingsHttp' = ServerError
            /\ UNCHANGED <<sseClients, wire, globalEventId, visitorSettings>>
       ELSE LET lk == ToLowerCase(req.lang[1])
                rate == ClampRate(req.ttsRate)
                eid == globalEventId + 1
            IN /\ visitorSettings' = MapSet(visitorSettings, lk, [ttsRate |-> rate])
               /\ globalEventId' = eid
               /\ BroadcastToLang(lk, SettingsEvent(eid, rate))
               /\ settingsHttp' = [status |-> 200, ok |-> TRUE, sent |-> SentCount(lk)]
  /\ UNCHANGED <<conn, hbTimers, hbLeft, clientCounter, totalChunksTranslated, sessionLog,
                 statusHttp, suggestedPresets, presetHttp, lastSuggested,
                 pipeline, calls, http, nIngest, timing>>

\* -------------------------------------------------------- /preset-suggest
\* A JSON string that is given and not empty.
Truthy(opt) == opt # << >> /\ opt[1] # ""

\* app.post('/preset-suggest'): a suggestion with a language and a preset is
\* recorded under the language as it was sent; the answer is always ok.
PresetSuggest(req) ==
  /\ IF Truthy(req.lang) /\ Truthy(req.preset)
       THEN /\ suggestedPresets' =
                 MapSet(suggestedPresets, req.lang[1], req.preset[1])
            /\ lastSuggested' =
                 MapSet(lastSuggested, ToLowerCase(req.lang[1]), req.preset[1])
       ELSE UNCHANGED <<suggestedPresets, lastSuggested>>
  /\ presetHttp' = [status |-> 200, ok |-> TRUE]
  /\ UNCHANGED <<registry, output, visitorSettings, settingsHttp, nSettings,
                 statusHttp, pipeline, calls, http, nIngest, timing>>

\* suggestedPresets[lang] || null, with the lang of the request body as sent.
SuggestedPreset(lang) ==
  IF Has(suggestedPresets, lang) THEN <<suggestedPresets[lang]>> ELSE << >>

\* ------------------------------------------------------ translateText
\* What fetch gives back: no reply at all (fetch rejects), an HTTP error, a
\* body that is not JSON, or a JSON body with or without choices[0].message.content.
NoReply == [arrived |-> FALSE, ok |-> FALSE, json |-> FALSE, content |-> << >>]
HttpError == [arrived |-> TRUE, ok |-> FALSE, json |-> FALSE, content |-> << >>]
NotJson == [arrived |-> TRUE, ok |-> TRUE, json |-> FALSE, content |-> << >>]
NoContent == [arrived |-> TRUE, ok |-> TRUE, json |-> TRUE, content |-> << >>]
Content(text) == [arrived |-> TRUE, ok |-> TRUE, json |-> TRUE, content |-> <<text>>]

Replies == {NoReply, HttpError, NotJson, NoContent, Content(<<SP, "x", SP>>)}

\* translateText throws when fetch rejects, when response.ok is false and when
\* response.json() rejects.
Throws(reply) == ~reply.arrived \/ ~reply.ok \/ ~reply.json

\* data.choices?.[0]?.message?.content?.trim() || ''
TranslateText(reply) ==
  IF reply.content = << >> THEN << >> ELSE Trim(reply.content[1])

\* ------------------------------------------------------------- flushLang
\* clearTimeout(h): h is no longer active (nothing happens when it was not).
ClearTimeout(active, h) == MapDelete(active, h)

\* flushLang without `pendingByLang.delete(lk)`: the batch is translated and
\* stays in the map.
FlushLangKeepsBatch(lk, active) ==
  LET deb == Has(timerByLang, lk)
      active1 == IF deb THEN ClearTimeout(active, timerByLang[lk]) ELSE active
  IN /\ timerByLang' = (IF deb THEN MapDelete(timerByLang, lk) ELSE timerByLang)
     /\ flushCount' = MapSet(flushCount, lk,
                             IF Has(flushCount, lk) THEN flushCount[lk] + 1 ELSE 1)
     /\ IF ~Has(pendingByLang, lk)
          THEN /\ timers' = active1
               /\ UNCHANGED <<pendingByLang, calls>>
          ELSE LET batch == pendingByLang[lk] IN
               /\ pendingByLang' = pendingByLang
               /\ timers' = ClearTimeout(active1, batch.maxTimer)
               /\ calls' = Append(calls,
                            [lang |-> lk, batch |-> batch,
                             sourceText |-> Join(batch.texts),
                             flushStartMs |-> clock, joined |-> clientCounter,
                             status |-> "pending",
                             translated |-> << >>, chunkId |-> 0, sent |-> 0])
     /\ UNCHANGED <<registry, output, admin, timerSeq, http, nIngest,
                    timing>>

\* flushLang that returns, once the debounce timeout is cleared, while an
\* earlier translateText call of the language has not come back.
FlushLangWhenIdle(lk, active) ==
  LET deb == Has(timerByLang, lk)
      active1 == IF deb THEN ClearTimeout(active, timerByLang[lk]) ELSE active
      busy == \E c \in 1..Len(calls) :
                calls[c].lang = lk /\ calls[c].status = "pending"
  IN /\ timerByLang' = (IF deb THEN MapDelete(timerByLang, lk) ELSE timerByLang)
     /\ flushCount' = MapSet(flushCount, lk,
                             IF Has(flushCount, lk) THEN flushCount[lk] + 1 ELSE 1)
     /\ IF ~Has(pendingByLang, lk) \/ busy
          THEN /\ timers' = active1
               /\ UNCHANGED <<pendingByLang, calls>>
          ELSE LET batch == pendingByLang[lk] IN
               /\ pendingByLang' = MapDelete(pendingByLang, lk)
               /\ timers' = ClearTimeout(active1, batch.maxTimer)
               /\ calls' = Append(calls,
                            [lang |-> lk, batch |-> batch,
                             sourceText |-> Join(batch.texts),
                             flushStartMs |-> clock, joined |-> clientCounter,
                             status |-> "pending",
                             translated |-> << >>, chunkId |-> 0, sent |-> 0])
     /\ UNCHANGED <<registry, output, admin, timerSeq, http, nIngest,
                    timing>>

\* flushLang without `clearTimeout(batch.maxTimer)`: the max-wait timeout of
\* the batch it removes stays active.
FlushLangLeavesMaxWait(lk, active) ==
  LET deb == Has(timerByLang, lk)
      active1 == IF deb THEN ClearTimeout(active, timerByLang[lk]) ELSE active
  IN /\ timerByLang' = (IF deb THEN MapDelete(timerByLang, lk) ELSE timerByLang)
     /\ flushCount' = MapSet(flushCount, lk,
                             IF Has(flushCount, lk) THEN flushCount[lk] + 1 ELSE 1)
     /\ timers' = active1
     /\ IF ~Has(pendingByLang, lk)
          THEN UNCHANGED <<pendingByLang, calls>>
          ELSE LET batch == pendingByLang[lk] IN
               /\ pendingByLang' = MapDelete(pendingByLang, lk)
               /\ calls' = Append(calls,
                            [lang |-> lk, batch |-> batch,
                             sourceText |-> Join(batch.texts),
                             flushStartMs |-> clock, joined |-> clientCounter,
                             status |-> "pending",
                             translated |-> << >>, chunkId |-> 0, sent |-> 0])
     /\ UNCHANGED <<registry, output, admin, timerSeq, http, nIngest,
                    timing>>

\* flushLang(lk) up to its await, run with the timeouts `active`: the debounce
\* timeout is cleared and forgotten, the batch is taken out of the map, its
\* max-wait timeout cleared, and translateText is called with the joined texts.
FlushLang(lk, active) ==
  LET deb == Has(timerByLang, lk)
      active1 == IF deb THEN ClearTimeout(active, timerByLang[lk]) ELSE active
  IN /\ timerByLang' = (IF deb THEN MapDelete(timerByLang, lk) ELSE timerByLang)
     /\ flushCount' = MapSet(flushCount, lk,
                             IF Has(flushCount, lk) THEN flushCount[lk] + 1 ELSE 1)
     /\ IF ~Has(pendingByLang, lk)
          THEN /\ timers' = active1
               /\ UNCHANGED <<pendingByLang, calls>>
          ELSE LET batch == pendingByLang[lk] IN
               /\ pendingByLang' = MapDelete(pendingByLang, lk)
               /\ timers' = ClearTimeout(active1, batch.maxTimer)
               /\ calls' = Append(calls,
                            [lang |-> lk, batch |-> batch,
                             sourceText |-> Join(batch.texts),
                             flushStartMs |-> clock, joined |-> clientCounter,
                             status |-> "pending",
                             translated |-> << >>, chunkId |-> 0, sent |-> 0])
     /\ UNCHANGED <<registry, output, admin, timerSeq, http, nIngest,
                    timing>>

Due(h, kind) == Has(timers, h) /\ timers[h].kind = kind /\ timers[h].left = 0

\* The debounce timeout of a language fires: () => flushLang(lk).
DebounceTimeout(h) ==
  /\ Due(h, "debounce")
  /\ FlushLang(timers[h].lang, MapDelete(timers, h))

\* The max-wait timeout of a batch fires: force-flush.
MaxWaitTimeout(h) ==
  /\ Due(h, "maxWait")
  /\ FlushLang(timers[h].lang, MapDelete(timers, h))

LogEntry(c, translated) ==
  [timestamp |-> clock, seq |-> calls[c].batch.seq, lang |-> calls[c].lang,
   sourceText |-> calls[c].sourceText, translatedText |-> translated,
   latencyMs |-> clock - calls[c].flushStartMs]

\* A push without the shift: the log only grows.
LogPushUnbounded(log, entry) == Append(log, entry)

\* sessionLog.push(entry); if (sessionLog.length > 1000) sessionLog.shift()
LogPush(log, entry) ==
  LET pushed == Append(log, entry)
  IN IF Len(pushed) > LOG_MAX THEN Tail(pushed) ELSE pushed

\* ts: batch.ts ?? Date.now()
ChunkEvent(eid, c, translated) ==
  [id |-> <<eid>>, event |-> "chunk",
   data |-> [text |-> translated,
             ts |-> IF calls[c].batch.ts = << >> THEN <<clock>> ELSE calls[c].batch.ts,
             seq |-> calls[c].batch.seq]]

\* flushLang after its await, translateText having returned: count, log, broadcast.
TranslationReturns(c, reply) ==
  /\ c \in 1..Len(calls)
  /\ calls[c].status = "pending"
  /\ ~Throws(reply)
  /\ LET translated == TranslateText(reply)
         eid == globalEventId + 1
     IN /\ totalChunksTranslated' = totalChunksTranslated + 1
        /\ sessionLog' = LogPush(sessionLog, LogEntry(c, translated))
        /\ globalEventId' = eid
        /\ BroadcastToLang(calls[c].lang, ChunkEvent(eid, c, translated))
        /\ calls' = [calls EXCEPT ![c] = [@ EXCEPT !.status = "done",
                                                   !.translated = translated,
                                                   !.chunkId = eid,
                                                   !.sent = SentCount(calls[c].lang)]]
  /\ UNCHANGED <<conn, hbTimers, hbLeft, clientCounter, admin, pipeline, http,
                 nIngest, timing>>

\* A catch that puts the batch back when the language has none pending.
TranslationFailsRequeues(c, reply) ==
  /\ c \in 1..Len(calls)
  /\ calls[c].status = "pending"
  /\ Throws(reply)
  /\ calls' = [calls EXCEPT ![c] = [@ EXCEPT !.status = "failed"]]
  /\ pendingByLang' = (IF Has(pendingByLang, calls[c].lang) THEN pendingByLang
                       ELSE MapSet(pendingByLang, calls[c].lang, calls[c].batch))
  /\ UNCHANGED <<registry, output, admin, timerByLang, timers, timerSeq,
                 flushCount, http, nIngest, timing>>

\* A catch that answers the producer's request with the failure.
TranslationFailsReports(c, reply) ==
  /\ c \in 1..Len(calls)
  /\ calls[c].status = "pending"
  /\ Throws(reply)
  /\ calls' = [calls EXCEPT ![c] = [@ EXCEPT !.status = "failed"]]
  /\ http' = [status |-> 502, ok |-> FALSE, error |-> "Translation error"]
  /\ UNCHANGED <<registry, output, admin, pipeline, nIngest, timing>>

\* A catch that counts the batch all the same.
TranslationFailsCounts(c, reply) ==
  /\ c \in 1..Len(calls)
  /\ calls[c].status = "pending"
  /\ Throws(reply)
  /\ calls' = [calls EXCEPT ![c] = [@ EXCEPT !.status = "failed"]]
  /\ totalChunksTranslated' = totalChunksTranslated + 1
  /\ UNCHANGED <<registry, globalEventId, sessionLog, admin, pipeline, http,
                 nIngest, timing>>

\* flushLang after its await, translateText having thrown: the catch logs it.
TranslationFails(c, reply) ==
  /\ c \in 1..Len(calls)
  /\ calls[c].status = "pending"
  /\ Throws(reply)
  /\ calls' = [calls EXCEPT ![c] = [@ EXCEPT !.status = "failed"]]
  /\ UNCHANGED <<registry, output, admin, pipeline, http, nIngest, timing>>

\* ------------------------------------------------------------- /ingest
\* The validation of app.post('/ingest'): the reason of the 400, "ok", or the
\* error the handler throws.
Validate(req) ==
  IF req.sourceText = << >> \/ Len(req.sourceText[1]) = 0
       \/ Len(req.sourceText[1]) > MAX_TEXT_LEN
    THEN "sourceText missing, empty, or too long (max 1000 chars)"
  ELSE IF FalsyLang(req)
    THEN "Missing lang"
  ELSE IF req.langType # "string"
    THEN TYPE_ERROR
  ELSE IF ToLowerCase(req.lang[1]) \notin SUPPORTED_LANGS
    THEN "Unsupported language"
  ELSE IF req.seq # << >> /\ req.seq[1] < 0
    THEN "Invalid seq: must be a non-negative number"
  ELSE "ok"

\* !x of an optional number: undefined and 0 are falsy.
Falsy(opt) == opt = << >> \/ opt = <<0>>

\* res.status(400).json({ ok: false, error }), if the handler gets that far.
Rejected(reason) ==
  IF reason = TYPE_ERROR THEN ServerError
  ELSE [status |-> 400, ok |-> FALSE, error |-> reason]

\* A response with `accepted: true` whatever the count.
AcknowledgedAccepted(receiverCount, preset) ==
  [status |-> 200, ok |-> TRUE, hasReceiver |-> receiverCount > 0,
   clientCount |-> receiverCount, accepted |-> TRUE,
   suggestedPreset |-> preset]

\* res.json({ ok, hasReceiver, clientCount, accepted, suggestedPreset })
Acknowledged(receiverCount, preset) ==
  [status |-> 200, ok |-> TRUE, hasReceiver |-> receiverCount > 0,
   clientCount |-> receiverCount, accepted |-> receiverCount > 0,
   suggestedPreset |-> preset]

\* Accumulate with unshift for push: the new text goes in front.
AccumulateInFront(lk, req, n, h) ==
  IF ~Has(pendingByLang, lk)
    THEN [texts |-> <<req.sourceText[1]>>, ids |-> <<n>>,
          heardBy |-> <<Cardinality(Receivers(lk))>>,
          seqs |-> <<req.seq>>, stamps |-> <<req.ts>>, ts |-> req.ts,
          seq |-> req.seq, maxTimer |-> h]
    ELSE LET existing == pendingByLang[lk]
         IN [texts |-> <<req.sourceText[1]>> \o existing.texts,
             ids |-> <<n>> \o existing.ids,
             heardBy |-> <<Cardinality(Receivers(lk))>> \o existing.heardBy,
             seqs |-> <<req.seq>> \o existing.seqs,
             stamps |-> <<req.ts>> \o existing.stamps,
             ts |-> IF Falsy(existing.ts) THEN req.ts ELSE existing.ts,
             seq |-> req.seq,
             maxTimer |-> existing.maxTimer]

\* Accumulate that keeps the highest sequence number seen.
AccumulateKeepsMaxSeq(lk, req, n, h) ==
  IF ~Has(pendingByLang, lk)
    THEN [texts |-> <<req.sourceText[1]>>, ids |-> <<n>>,
          heardBy |-> <<Cardinality(Receivers(lk))>>,
          seqs |-> <<req.seq>>, stamps |-> <<req.ts>>, ts |-> req.ts,
          seq |-> req.seq, maxTimer |-> h]
    ELSE LET existing == pendingByLang[lk]
         IN [texts |-> Append(existing.texts, req.sourceText[1]),
             ids |-> Append(existing.ids, n),
             heardBy |-> Append(existing.heardBy, Cardinality(Receivers(lk))),
             seqs |-> Append(existing.seqs, req.seq),
             stamps |-> Append(existing.stamps, req.ts),
             ts |-> IF Falsy(existing.ts) THEN req.ts ELSE existing.ts,
             seq |-> IF existing.seq # << >>
                        /\ (req.seq = << >> \/ req.seq[1] < existing.seq[1])
                       THEN existing.seq ELSE req.seq,
             maxTimer |-> existing.maxTimer]

\* Accumulate with `existing.ts = ts`: the batch takes the ts of every fragment.
AccumulateLastTs(lk, req, n, h) ==
  IF ~Has(pendingByLang, lk)
    THEN [texts |-> <<req.sourceText[1]>>, ids |-> <<n>>,
          heardBy |-> <<Cardinality(Receivers(lk))>>,
          seqs |-> <<req.seq>>, stamps |-> <<req.ts>>, ts |-> req.ts,
          seq |-> req.seq, maxTimer |-> h]
    ELSE LET existing == pendingByLang[lk]
         IN [texts |-> Append(existing.texts, req.sourceText[1]),
             ids |-> Append(existing.ids, n),
             heardBy |-> Append(existing.heardBy, Cardinality(Receivers(lk))),
             seqs |-> Append(existing.seqs, req.seq),
             stamps |-> Append(existing.stamps, req.ts),
             ts |-> req.ts,
             seq |-> req.seq,
             maxTimer |-> existing.maxTimer]

\* Accumulate that, with no batch pending, goes on with the batch of the
\* language that is with the Translator.
AccumulateJoinsInFlight(lk, req, n, h) ==
  LET inFlight == {c \in 1..Len(calls) :
                     calls[c].lang = lk /\ calls[c].status = "pending"}
  IN IF Has(pendingByLang, lk)
       THEN LET existing == pendingByLang[lk]
            IN [texts |-> Append(existing.texts, req.sourceText[1]),
                ids |-> Append(existing.ids, n),
                heardBy |-> Append(existing.heardBy, Cardinality(Receivers(lk))),
                seqs |-> Append(existing.seqs, req.seq),
                stamps |-> Append(existing.stamps, req.ts),
                ts |-> IF Falsy(existing.ts) THEN req.ts ELSE existing.ts,
                seq |-> req.seq,
                maxTimer |-> existing.maxTimer]
     ELSE IF inFlight # {}
       THEN LET existing == calls[Min(inFlight)].batch
            IN [texts |-> Append(existing.texts, req.sourceText[1]),
                ids |-> Append(existing.ids, n),
                heardBy |-> Append(existing.heardBy, Cardinality(Receivers(lk))),
                seqs |-> Append(existing.seqs, req.seq),
                stamps |-> Append(existing.stamps, req.ts),
                ts |-> IF Falsy(existing.ts) THEN req.ts ELSE existing.ts,
                seq |-> req.seq,
                maxTimer |-> h]
     ELSE [texts |-> <<req.sourceText[1]>>, ids |-> <<n>>,
           heardBy |-> <<Cardinality(Receivers(lk))>>,
          seqs |-> <<req.seq>>, stamps |-> <<req.ts>>, ts |-> req.ts,
           seq |-> req.seq, maxTimer |-> h]

\* The batch of lk after the fragment of request n is accumulated; a new batch
\* gets the max-wait timeout h. Beside the texts a batch records, for the
\* properties below, the number of the request each text came with (ids),
\* how many receivers the language had at that moment (heardBy), and the seq
\* and the ts the request had (seqs, stamps).
Accumulate(lk, req, n, h) ==
  IF ~Has(pendingByLang, lk)
    THEN [texts |-> <<req.sourceText[1]>>, ids |-> <<n>>,
          heardBy |-> <<Cardinality(Receivers(lk))>>,
          seqs |-> <<req.seq>>, stamps |-> <<req.ts>>, ts |-> req.ts,
          seq |-> req.seq, maxTimer |-> h]
    ELSE LET existing == pendingByLang[lk]
         IN [texts |-> Append(existing.texts, req.sourceText[1]),
             ids |-> Append(existing.ids, n),
             heardBy |-> Append(existing.heardBy, Cardinality(Receivers(lk))),
             seqs |-> Append(existing.seqs, req.seq),
             stamps |-> Append(existing.stamps, req.ts),
             ts |-> IF Falsy(existing.ts) THEN req.ts ELSE existing.ts,
             seq |-> req.seq,
             maxTimer |-> existing.maxTimer]

\* Admit that restarts the max-wait timeout with every fragment, as it does
\* the debounce timeout.
AdmitRearmsMaxWait(lk, req, n) ==
  LET fresh == ~Has(pendingByLang, lk)
      hMax == timerSeq + 1
      hDeb == timerSeq + 2
      dropped == IF fresh THEN timers
                 ELSE ClearTimeout(timers, pendingByLang[lk].maxTimer)
      armed == MapSet(dropped, hMax,
                      [kind |-> "maxWait", lang |-> lk, left |-> MAX_WAIT_MS])
      cleared == IF Has(timerByLang, lk)
                   THEN ClearTimeout(armed, timerByLang[lk])
                   ELSE armed
  IN /\ pendingByLang' =
          MapSet(pendingByLang, lk,
                 [Accumulate(lk, req, n, hMax) EXCEPT !.maxTimer = hMax])
     /\ timers' = MapSet(cleared, hDeb,
                         [kind |-> "debounce", lang |-> lk, left |-> DEBOUNCE_MS])
     /\ timerByLang' = MapSet(timerByLang, lk, hDeb)
     /\ timerSeq' = hDeb
     /\ flushCount' = MapSet(flushCount, lk, 0)

\* Admit without `if (old) clearTimeout(old)`: the debounce timeout of the
\* fragment before stays active beside the new one.
AdmitKeepsDebounce(lk, req, n) ==
  LET fresh == ~Has(pendingByLang, lk)
      hMax == timerSeq + 1
      hDeb == IF fresh THEN timerSeq + 2 ELSE timerSeq + 1
      armed == IF fresh
                 THEN MapSet(timers, hMax,
                             [kind |-> "maxWait", lang |-> lk, left |-> MAX_WAIT_MS])
                 ELSE timers
  IN /\ pendingByLang' = MapSet(pendingByLang, lk, Accumulate(lk, req, n, hMax))
     /\ timers' = MapSet(armed, hDeb,
                         [kind |-> "debounce", lang |-> lk, left |-> DEBOUNCE_MS])
     /\ timerByLang' = MapSet(timerByLang, lk, hDeb)
     /\ timerSeq' = hDeb
     /\ flushCount' = MapSet(flushCount, lk, 0)

\* The part of the handler behind `if (!hasReceiver) return`: accumulate into
\* the language's batch (arming the max-wait timeout of a new one), then
\* restart the debounce timeout.
Admit(lk, req, n) ==
  LET fresh == ~Has(pendingByLang, lk)
      hMax == timerSeq + 1
      hDeb == IF fresh THEN timerSeq + 2 ELSE timerSeq + 1
      armed == IF fresh
                 THEN MapSet(timers, hMax,
                             [kind |-> "maxWait", lang |-> lk, left |-> MAX_WAIT_MS])
                 ELSE timers
      cleared == IF Has(timerByLang, lk)
                   THEN ClearTimeout(armed, timerByLang[lk])
                   ELSE armed
  IN /\ pendingByLang' = MapSet(pendingByLang, lk, Accumulate(lk, req, n, hMax))
     /\ timers' = MapSet(cleared, hDeb,
                         [kind |-> "debounce", lang |-> lk, left |-> DEBOUNCE_MS])
     /\ timerByLang' = MapSet(timerByLang, lk, hDeb)
     /\ timerSeq' = hDeb
     /\ flushCount' = MapSet(flushCount, lk, 0)

\* The handler without `if (!hasReceiver) return`.
IngestAdmitsUnheard(req) ==
  LET reason == Validate(req)
      n == nIngest + 1
  IN /\ nIngest' = n
     /\ IF reason # "ok"
          THEN /\ http' = Rejected(reason)
               /\ UNCHANGED pipeline
          ELSE LET lk == ToLowerCase(req.lang[1])
                   receiverCount == Cardinality(Receivers(lk))
               IN /\ http' = Acknowledged(receiverCount, SuggestedPreset(req.lang[1]))
                  /\ Admit(lk, req, n)
     /\ UNCHANGED <<registry, output, admin, calls>>

\* The handler with `if (!hasReceiver) return` behind the accumulation only:
\* a fragment nobody hears restarts the debounce timeout of an open batch.
IngestUnheardRestartsDebounce(req) ==
  LET reason == Validate(req)
      n == nIngest + 1
  IN /\ nIngest' = n
     /\ IF reason # "ok"
          THEN /\ http' = Rejected(reason)
               /\ UNCHANGED pipeline
          ELSE LET lk == ToLowerCase(req.lang[1])
                   receiverCount == Cardinality(Receivers(lk))
                   hDeb == timerSeq + 1
               IN /\ http' = Acknowledged(receiverCount, SuggestedPreset(req.lang[1]))
                  /\ IF receiverCount > 0
                       THEN Admit(lk, req, n)
                       ELSE IF Has(timerByLang, lk)
                       THEN /\ timers' =
                                 MapSet(ClearTimeout(timers, timerByLang[lk]), hDeb,
                                        [kind |-> "debounce", lang |-> lk,
                                         left |-> DEBOUNCE_MS])
                            /\ timerByLang' = MapSet(timerByLang, lk, hDeb)
                            /\ timerSeq' = hDeb
                            /\ UNCHANGED <<pendingByLang, flushCount>>
                       ELSE UNCHANGED pipeline
     /\ UNCHANGED <<registry, output, admin, calls>>

\* The handler counting every registry entry, of whatever language.
IngestCountsAllClients(req) ==
  LET reason == Validate(req)
      n == nIngest + 1
  IN /\ nIngest' = n
     /\ IF reason # "ok"
          THEN /\ http' = Rejected(reason)
               /\ UNCHANGED pipeline
          ELSE LET lk == ToLowerCase(req.lang[1])
                   receiverCount == Cardinality(DOMAIN sseClients)
               IN /\ http' = Acknowledged(receiverCount, SuggestedPreset(req.lang[1]))
                  /\ IF receiverCount > 0
                       THEN Admit(lk, req, n)
                       ELSE UNCHANGED pipeline
     /\ UNCHANGED <<registry, output, admin, calls>>

\* app.post('/ingest'): validate, answer at once, then admit the fragment when
\* the language has a receiver.
Ingest(req) ==
  LET reason == Validate(req)
      n == nIngest + 1
  IN /\ nIngest' = n
     /\ IF reason # "ok"
          THEN /\ http' = Rejected(reason)
               /\ UNCHANGED pipeline
          ELSE LET lk == ToLowerCase(req.lang[1])
                   receiverCount == Cardinality(Receivers(lk))
               IN /\ http' = Acknowledged(receiverCount, SuggestedPreset(req.lang[1]))
                  /\ IF receiverCount > 0
                       THEN Admit(lk, req, n)
                       ELSE UNCHANGED pipeline
     /\ UNCHANGED <<registry, output, admin, calls>>

\* ------------------------------------------------------------------ time
Lefts == {timers[h].left : h \in DOMAIN timers}

TimersAfter(d) ==
  [h \in DOMAIN timers |->
     [timers[h] EXCEPT !.left = IF @ > d THEN @ - d ELSE 0]]

\* Time passes up to the next deadline. A timeout fires no earlier than its
\* delay and possibly later: those already due need not have fired yet.
Elapse ==
  /\ \E h \in DOMAIN timers : timers[h].left > 0
  /\ timers' = TimersAfter(Min(Lefts \ {0}))
  /\ UNCHANGED <<registry, output, admin, pendingByLang, timerByLang,
                 timerSeq, flushCount, calls, http, nIngest, timing>>

\* ------------------------------------------------------------- requests
\* A request body {sourceText, lang, seq, ts}.
Fragment(text, lang, seq, ts) ==
  [sourceText |-> <<text>>, lang |-> <<lang>>, langType |-> "string",
   seq |-> seq, ts |-> ts]

IngestLangs == {"en", "it"}

\* What the producer sends: two fragments, one numbered and one not.
IngestRequests ==
  {Fragment(<<"a">>, l, <<1>>, << >>) : l \in IngestLangs}
    \cup {Fragment(<<"b">>, l, << >>, << >>) : l \in IngestLangs}

\* ---------------------------------------------------------- specification
Next ==
  \/ \E l \in SseLangs : clientCounter < MaxClients /\ SseConnect(l)
  \/ \E id \in DOMAIN conn : Close(id)
  \/ \E id \in DOMAIN conn : ConnectionBreaks(id)
  \/ \E id \in hbTimers : PingsWritten < MaxPings /\ Heartbeat(id)
  \/ \E req \in IngestRequests :
       nIngest < MaxIngest /\ Ingest(req) /\ UNCHANGED timing
  \/ \E h \in DOMAIN timers : DebounceTimeout(h)
  \/ \E h \in DOMAIN timers : MaxWaitTimeout(h)
  \/ \E c \in 1..Len(calls), reply \in Replies : TranslationReturns(c, reply)
  \/ \E c \in 1..Len(calls), reply \in Replies : TranslationFails(c, reply)
  \/ Elapse

Spec == Init /\ [][Next]_vars

\* ------------------------------------------------- the timed specification
\* The clock of the timed run advances in steps of half a debounce delay.
TickMs == DEBOUNCE_MS \div 2

\* Time passes, by a tick or up to the next deadline if that is sooner. Here
\* timeouts are punctual: no time passes while one is due and has not fired.
Tick ==
  /\ timers # EmptyMap
  /\ 0 \notin Lefts
  /\ LET d == Min(Lefts \cup {TickMs})
     IN /\ timers' = TimersAfter(d)
        /\ clock' = clock + d
  /\ UNCHANGED <<registry, output, admin, pendingByLang, timerByLang,
                 timerSeq, flushCount, calls, http, nIngest, burst,
                 rateLimits>>

\* The producer of the timed run sends "a", "b", "a", ... for one language.
BurstLang == "en"
BurstRequest(n) ==
  Fragment(IF n % 2 = 1 THEN <<"a">> ELSE <<"b">>, BurstLang, <<n>>, << >>)

\* The admissions of the timed run so far: how many, when the first and the
\* last were made, the longest time between two consecutive ones, and
\* whether all were accepted.
Observed(res) ==
  IF burst.n = 0
    THEN [n |-> 1, first |-> clock, last |-> clock, maxGap |-> 0,
          accepted |-> res.accepted]
    ELSE [n |-> burst.n + 1, first |-> burst.first, last |-> clock,
          maxGap |-> IF clock - burst.last > burst.maxGap
                       THEN clock - burst.last ELSE burst.maxGap,
          accepted |-> burst.accepted /\ res.accepted]

\* An /ingest request of the timed run. The run is one burst and the fragment
\* that follows its flush, with time passing between two requests.
BurstIngest ==
  /\ nIngest < MaxBurst
  /\ burst.n = 0 \/ clock > burst.last
  /\ Len(calls) = 0 \/ (Len(calls) = 1 /\ ~Has(pendingByLang, BurstLang))
  /\ Ingest(BurstRequest(nIngest + 1))
  /\ burst' = Observed(http')
  /\ UNCHANGED <<clock, rateLimits>>

NextTimed ==
  \/ clientCounter = 0 /\ SseConnect(BurstLang)
  \/ \E id \in DOMAIN conn : Close(id)
  \/ BurstIngest
  \/ \E h \in DOMAIN timers : DebounceTimeout(h)
  \/ \E h \in DOMAIN timers : MaxWaitTimeout(h)
  \/ Tick

SpecTimed == Init /\ [][NextTimed]_vars

\* ------------------------------------------- flushLang invoked directly
\* flushLang(lk) called once more by whoever holds the function (a racing
\* callback, a test) for a language that has had a fragment admitted,
\* whatever the state of its batch and timers.
FlushInvoked(lk) ==
  /\ Has(flushCount, lk)
  /\ flushCount[lk] < MaxReflush
  /\ FlushLang(lk, timers)

NextFlush ==
  \/ Next
  \/ \E lk \in IngestLangs : FlushInvoked(lk)

SpecFlush == Init /\ [][NextFlush]_vars

\* ------------------------------------------------------------- fairness
\* The event loop runs every timeout that is due, and time passes. Nothing
\* makes the Translator answer.
SpecFair ==
  /\ Init
  /\ [][Next]_vars
  /\ WF_vars(Elapse)
  /\ WF_vars(\E h \in DOMAIN timers : DebounceTimeout(h))
  /\ WF_vars(\E h \in DOMAIN timers : MaxWaitTimeout(h))

\* ------------------------------------- the streams with settings updates
\* What the settings page sends: a rate above the range, a language tag in
\* capitals without a rate, a body without a language.
SettingsRequests ==
  {[lang |-> <<"en">>, langType |-> "string", ttsRate |-> <<30>>],
   [lang |-> <<"IT">>, langType |-> "string", ttsRate |-> << >>],
   [lang |-> << >>, langType |-> "string", ttsRate |-> <<12>>]}

\* The producer of this run sends one fragment, for either language.
EventFragments == {Fragment(<<"a">>, l, <<1>>, << >>) : l \in IngestLangs}

\* Or a body that does not pass the validation: no text, an empty text, a
\* text of 1001 characters, no language, a language that is not supported, a
\* language that is a number, a negative sequence number.
BadRequests ==
  {[Fragment(<<"a">>, "en", <<1>>, << >>) EXCEPT !.sourceText = << >>],
   Fragment(<< >>, "en", <<1>>, << >>),
   Fragment([i \in 1..(MAX_TEXT_LEN + 1) |-> "a"], "en", <<1>>, << >>),
   [Fragment(<<"a">>, "en", <<1>>, << >>) EXCEPT !.lang = << >>],
   Fragment(<<"a">>, "xx", <<1>>, << >>),
   [Fragment(<<"a">>, "5", <<1>>, << >>) EXCEPT !.langType = "number"],
   Fragment(<<"a">>, "en", <<-1>>, << >>)}

\* The server with its subscribers, the producer, the settings page and the
\* monitor all at work.
NextEvents ==
  \/ \E l \in SseLangs : clientCounter < MaxClients /\ SseConnect(l)
  \/ \E id \in DOMAIN conn : Close(id)
  \/ \E id \in DOMAIN conn : ConnectionBreaks(id)
  \/ \E id \in hbTimers : PingsWritten < MaxPings /\ Heartbeat(id)
  \/ \E req \in EventFragments \cup BadRequests :
       nIngest < MaxEventIngest /\ Ingest(req) /\ UNCHANGED timing
  \/ \E req \in SettingsRequests : nSettings < MaxSettings /\ VisitorSettings(req)
  \/ Status
  \/ \E h \in DOMAIN timers : DebounceTimeout(h)
  \/ \E h \in DOMAIN timers : MaxWaitTimeout(h)
  \/ \E c \in 1..Len(calls), reply \in Replies : TranslationReturns(c, reply)
  \/ \E c \in 1..Len(calls), reply \in Replies : TranslationFails(c, reply)
  \/ Elapse

SpecEvents == Init /\ [][NextEvents]_vars

\* ------------------------------------------------- filling the session log
\* The entry flushLang logs for a one-fragment batch numbered n.
LoggedEntry(n) ==
  [timestamp |-> 0, seq |-> <<n>>, lang |-> BurstLang, sourceText |-> <<"a">>,
   translatedText |-> <<"x">>, latencyMs |-> 0]

\* The server one entry short of a full log: a subscriber came (one hello),
\* LOG_MAX - 1 fragments were sent one after the other, each admitted into a
\* batch of its own (two timeouts each), translated and broadcast, and the
\* subscriber has left. The calls of those batches are over and are left out
\* of the history.
InitLog ==
  /\ sseClients = EmptyMap
  /\ conn = EmptyMap
  /\ wire = EmptyMap
  /\ hbTimers = {}
  /\ hbLeft = EmptyMap
  /\ clientCounter = 1
  /\ globalEventId = LOG_MAX
  /\ totalChunksTranslated = LOG_MAX - 1
  /\ sessionLog = [n \in 1..(LOG_MAX - 1) |-> LoggedEntry(n)]
  /\ visitorSettings = EmptyMap
  /\ settingsHttp = NoResponse
  /\ nSettings = 0
  /\ statusHttp = NoResponse
  /\ suggestedPresets = EmptyMap
  /\ presetHttp = NoResponse
  /\ lastSuggested = EmptyMap
  /\ pendingByLang = EmptyMap
  /\ timerByLang = EmptyMap
  /\ timers = EmptyMap
  /\ timerSeq = 2 * (LOG_MAX - 1)
  /\ calls = << >>
  /\ http = Acknowledged(1, << >>)
  /\ nIngest = LOG_MAX - 1
  /\ flushCount = MapSet(EmptyMap, BurstLang, 1)
  /\ clock = 0
  /\ rateLimits = EmptyMap
  /\ burst = [n |-> 0, first |-> 0, last |-> 0, maxGap |-> 0, accepted |-> TRUE]

\* The n-th fragment of the producer, numbered n.
LogRequest(n) == Fragment(<<"a">>, BurstLang, <<n>>, << >>)

\* The producer sends the next fragment when the last one has been dealt with.
LogIngest ==
  /\ nIngest < MaxLogIngest
  /\ pendingByLang = EmptyMap
  /\ \A c \in 1..Len(calls) : calls[c].status # "pending"
  /\ Ingest(LogRequest(nIngest + 1))
  /\ UNCHANGED timing

\* Subscribers come and go, the producer goes on, the Translator answers or not.
NextLog ==
  \/ clientCounter < MaxLogClients /\ SseConnect(BurstLang)
  \/ \E id \in DOMAIN conn : Close(id)
  \/ LogIngest
  \/ Elapse
  \/ \E h \in DOMAIN timers : DebounceTimeout(h)
  \/ \E h \in DOMAIN timers : MaxWaitTimeout(h)
  \/ \E c \in 1..Len(calls), reply \in Replies : TranslationReturns(c, reply)
  \/ \E c \in 1..Len(calls), reply \in Replies : TranslationFails(c, reply)

SpecLog == InitLog /\ [][NextLog]_vars

\* --------------------------------------------------- the settings page
\* /visitor-settings requests of the run that has only them and the registry.
MaxRateCalls == 2

\* What the settings page sends for either language, one tag in capitals: a
\* rate of zero, one below the range, one inside, one above (in tenths).
RateLangs == {"en", "IT"}
Rates == {0, 3, 12, 30}
RateRequests ==
  {[lang |-> <<l>>, langType |-> "string", ttsRate |-> <<r>>] :
     l \in RateLangs, r \in Rates}

\* Subscribers come and go while the rates are set.
NextSettings ==
  \/ \E l \in SseLangs : clientCounter < MaxClients /\ SseConnect(l)
  \/ \E id \in DOMAIN conn : Close(id)
  \/ \E id \in DOMAIN conn : ConnectionBreaks(id)
  \/ \E req \in RateRequests : nSettings < MaxRateCalls /\ VisitorSettings(req)

SpecSettings == Init /\ [][NextSettings]_vars

\* ------------------------------------------------- the preset suggestions
\* What a visitor's page suggests: a preset for a language, the tag as the
\* page has it; or a body without a language or without a preset.
PresetLangs == {"en", "EN", "it"}
Presets == {"wide", "close"}
PresetRequests ==
  {[lang |-> <<l>>, preset |-> <<p>>] : l \in PresetLangs, p \in Presets}
    \cup {[lang |-> << >>, preset |-> <<"wide">>],
          [lang |-> <<"en">>, preset |-> << >>]}

\* The producer's fragment, its language tag in either case.
PresetFragments == {Fragment(<<"a">>, l, <<1>>, << >>) : l \in PresetLangs}

\* Suggestions arrive, subscribers come and go, the producer sends a
\* fragment; the run ends with the answer to it.
NextPreset ==
  \/ \E l \in SseLangs : clientCounter < MaxClients /\ SseConnect(l)
  \/ \E id \in DOMAIN conn : Close(id)
  \/ \E req \in PresetRequests : PresetSuggest(req)
  \/ \E req \in PresetFragments :
       nIngest < MaxEventIngest /\ Ingest(req) /\ UNCHANGED timing

SpecPreset == Init /\ [][NextPreset]_vars

\* ------------------------------------------- sequence numbers, timestamps
\* /ingest requests of the run whose fragments differ in seq and ts.
MaxFieldIngest == 2

\* What the producer sends for one language: a fragment without a sequence
\* number or with one (not in ascending order), without a timestamp, with the
\* timestamp 0 or with a later one.
FieldSeqs == {<< >>, <<1>>, <<2>>}
FieldStamps == {<< >>, <<0>>, <<5>>, <<7>>}
FieldRequests ==
  {Fragment(<<"a">>, BurstLang, seq, ts) : seq \in FieldSeqs, ts \in FieldStamps}

\* One subscriber listens; timeouts are punctual and the clock runs, so the
\* time of a broadcast differs from every timestamp the producer sends.
NextFields ==
  \/ clientCounter = 0 /\ SseConnect(BurstLang)
  \/ \E req \in FieldRequests :
       nIngest < MaxFieldIngest /\ Ingest(req) /\ UNCHANGED timing
  \/ \E h \in DOMAIN timers : DebounceTimeout(h)
  \/ Tick
  \/ \E c \in 1..Len(calls), reply \in Replies : TranslationReturns(c, reply)

SpecFields == Init /\ [][NextFields]_vars

\* ------------------------------------------- the heartbeat specification
\* The run of the heartbeats ends at this time on the clock.
MaxBeatClock == 30000

\* Without a deadline before it, time passes in steps of a third of the
\* heartbeat interval, so that connections are made at different phases.
BeatStepMs == HEARTBEAT_MS \div 3

BeatLefts == {hbLeft[id] : id \in DOMAIN hbLeft} \cup Lefts

\* Time passes for the timeouts and the intervals alike; both are punctual.
BeatTick ==
  /\ 0 \notin BeatLefts
  /\ LET d == Min(BeatLefts \cup {BeatStepMs})
     IN /\ clock + d <= MaxBeatClock
        /\ clock' = clock + d
        /\ timers' = TimersAfter(d)
        /\ hbLeft' = [id \in DOMAIN hbLeft |-> hbLeft[id] - d]
  /\ UNCHANGED <<sseClients, conn, wire, hbTimers, clientCounter, output,
                 admin, pendingByLang, timerByLang, timerSeq, flushCount,
                 calls, http, nIngest, burst, rateLimits>>

\* The interval of a connection fires when its 15000 ms have passed.
BeatDue(clientId) ==
  /\ Has(hbLeft, clientId)
  /\ hbLeft[clientId] = 0
  /\ Heartbeat(clientId)

\* The producer speaks one language; subscribers of both come, go and break.
BeatFragment == Fragment(<<"a">>, BurstLang, <<1>>, << >>)

NextBeat ==
  \/ \E l \in SseLangs : clientCounter < MaxClients /\ SseConnect(l)
  \/ \E id \in DOMAIN conn : Close(id)
  \/ \E id \in DOMAIN conn : ConnectionBreaks(id)
  \/ \E id \in 1..MaxClients : BeatDue(id)
  \/ nIngest < MaxEventIngest /\ Ingest(BeatFragment) /\ UNCHANGED timing
  \/ \E h \in DOMAIN timers : DebounceTimeout(h)
  \/ \E c \in 1..Len(calls), reply \in Replies : TranslationReturns(c, reply)
  \/ \E c \in 1..Len(calls), reply \in Replies : TranslationFails(c, reply)
  \/ BeatTick

\* The runtime fires every timeout and every interval that is due, and time
\* goes on.
SpecBeat ==
  /\ Init
  /\ [][NextBeat]_vars
  /\ WF_vars(BeatTick)
  /\ WF_vars(\E h \in DOMAIN timers : DebounceTimeout(h))
  /\ \A id \in 1..MaxClients : WF_vars(BeatDue(id))

\* --------------------------------------------------------- rate limiter
\* app.post('/ingest', rateLimit(30, 60000), ...)
INGEST_LIMIT == 30
INGEST_WINDOW_MS == 60000

INGEST_PATH == "/ingest"

\* const key = `${ip}:${req.path}`
RateKey(ip, path) == <<ip, path>>

\* !entry || now > entry.resetAt
WindowOver(key) ==
  IF Has(rateLimits, key) THEN clock > rateLimits[key].resetAt ELSE TRUE

\* A limiter that lets one request more through: count > limit + 1.
RateLimitPassesOneMore(key, limit) ==
  IF WindowOver(key) THEN TRUE ELSE rateLimits[key].count + 1 <= limit + 1

\* Whether the middleware calls next(): a new window, or ++entry.count <= limit.
RateLimitPasses(key, limit) ==
  IF WindowOver(key) THEN TRUE ELSE rateLimits[key].count + 1 <= limit

\* rateLimits after the middleware has run, with how many requests of the
\* window were handed to the handler (reached).
RateLimitAfter(key, limit, windowMs) ==
  IF WindowOver(key)
    THEN MapSet(rateLimits, key,
                [count |-> 1, resetAt |-> clock + windowMs, reached |-> 1])
    ELSE [rateLimits EXCEPT
            ![key] = [@ EXCEPT !.count = @ + 1,
                               !.reached = IF RateLimitPasses(key, limit)
                                             THEN @ + 1 ELSE @]]

TooManyRequests ==
  [status |-> 429, error |-> "Too many requests, try again later."]

\* A POST /ingest as the server gets it: the limiter, then the handler.
LimitedIngest(ip, req) ==
  LET key == RateKey(ip, INGEST_PATH)
  IN /\ rateLimits' = RateLimitAfter(key, INGEST_LIMIT, INGEST_WINDOW_MS)
     /\ IF RateLimitPasses(key, INGEST_LIMIT)
          THEN Ingest(req)
          ELSE /\ http' = TooManyRequests
               /\ UNCHANGED <<registry, output, admin, pipeline, calls, nIngest>>
     /\ UNCHANGED <<clock, burst>>

\* The cleanup interval: for each entry, if (now > v.resetAt) delete it.
RateCleanup ==
  /\ rateLimits' = [k \in {k \in DOMAIN rateLimits :
                             clock <= rateLimits[k].resetAt} |-> rateLimits[k]]
  /\ UNCHANGED <<registry, output, admin, pipeline, calls, http, nIngest,
                 clock, burst>>

\* ---------------------------------------- the rate limiter's specification
\* Past the limit of a window the busy client sends this many requests more,
\* and the other client sends this many in a window.
MaxOver == 2
MaxOther == 2

\* The run of the limiter ends at this time on the clock.
MaxRateClock == 120000

\* Time passes in steps of half a window.
RateStepMs == INGEST_WINDOW_MS \div 2

BusyClient == "10.0.0.1"
OtherClient == "10.0.0.2"

\* The busy client sends in bursts: once it has begun a window, no time
\* passes until it has sent all its requests of the window but one.
BurstSent ==
  LET key == RateKey(BusyClient, INGEST_PATH)
  IN IF WindowOver(key) THEN TRUE
     ELSE rateLimits[key].count >= INGEST_LIMIT - 1

RateTick ==
  /\ BurstSent
  /\ clock + RateStepMs <= MaxRateClock
  /\ clock' = clock + RateStepMs
  /\ timers' = TimersAfter(RateStepMs)
  /\ UNCHANGED <<registry, output, admin, pendingByLang, timerByLang,
                 timerSeq, flushCount, calls, http, nIngest, burst, rateLimits>>

\* How many requests a client may still send in the run.
MaySend(ip, most) ==
  LET key == RateKey(ip, INGEST_PATH)
  IN IF WindowOver(key) THEN TRUE ELSE rateLimits[key].count < most

\* The subscriber, if there is one, is there before the first request.
NextRate ==
  \/ clientCounter = 0 /\ nIngest = 0 /\ SseConnect(BurstLang)
  \/ MaySend(BusyClient, INGEST_LIMIT + MaxOver)
       /\ LimitedIngest(BusyClient, BeatFragment)
  \/ MaySend(OtherClient, MaxOther) /\ LimitedIngest(OtherClient, BeatFragment)
  \/ \E h \in DOMAIN timers : DebounceTimeout(h)
  \/ clock % INGEST_WINDOW_MS = 0 /\ clock > 0 /\ RateCleanup
  \/ RateTick

SpecRate == Init /\ [][NextRate]_vars

\* ================================================================ claims
\* Where request n sits: the positions it has in the pending batches and in
\* the batches handed to translateText.
PendingPlaces(n) ==
  {p \in (DOMAIN pendingByLang) \X (1..nIngest) :
     /\ p[2] <= Len(pendingByLang[p[1]].ids)
     /\ pendingByLang[p[1]].ids[p[2]] = n}

CallPlaces(n) ==
  {p \in (1..Len(calls)) \X (1..nIngest) :
     /\ p[2] <= Len(calls[p[1]].batch.ids)
     /\ calls[p[1]].batch.ids[p[2]] = n}

\* C1: a language has at most one pending batch (pendingByLang is a map keyed
\* by language), and a fragment is in at most one batch, pending or handed to
\* the Translator: it takes at most one place over all of them, and the source
\* text of a call is the join of exactly the texts of its batch.
C1_FragmentInOneBatch ==
  /\ \A n \in 1..nIngest :
       Cardinality(PendingPlaces(n)) + Cardinality(CallPlaces(n)) <= 1
  /\ \A lk \in DOMAIN pendingByLang :
       Len(pendingByLang[lk].texts) = Len(pendingByLang[lk].ids)
  /\ \A c \in 1..Len(calls) :
       /\ Len(calls[c].batch.texts) = Len(calls[c].batch.ids)
       /\ calls[c].sourceText = Join(calls[c].batch.texts)

\* A batch of a language is with the Translator while the next batch of the
\* same language is pending.
C1_Witness ==
  \E c \in 1..Len(calls) :
    /\ calls[c].status = "pending"
    /\ Has(pendingByLang, calls[c].lang)

\* The call whose chunk event has id eid.
CallOfChunk(eid) == CHOOSE c \in 1..Len(calls) : calls[c].chunkId = eid

\* C2: every subscriber gets the chunks of its language in the order their
\* batches were flushed (the order of the translateText calls), whichever call
\* returns first.
C2_ChunksInFlushOrder ==
  \A id \in DOMAIN wire :
    \A i, j \in 1..Len(wire[id]) :
      (i < j /\ wire[id][i].event = "chunk" /\ wire[id][j].event = "chunk")
        => CallOfChunk(wire[id][i].id[1]) < CallOfChunk(wire[id][j].id[1])

\* The translateText calls whose batch holds the fragment of request n.
CallsWith(n) == {c \in 1..Len(calls) : \E p \in CallPlaces(n) : p[1] = c}

\* Request n has just been answered with accepted: true.
Accepted(n) == nIngest = n /\ http.status = 200 /\ http.accepted

\* C3: under fairness of the timeouts, every fragment that /ingest answered
\* with accepted: true is eventually in the batch of a translateText call, and
\* never in the batches of two, whether or not earlier calls ever return.
C3_AcceptedTranslatedOnce ==
  /\ [](\A n \in 1..MaxIngest : Cardinality(CallsWith(n)) <= 1)
  /\ \A n \in 1..MaxIngest : Accepted(n) ~> (Cardinality(CallsWith(n)) = 1)

\* A later batch of a language went to the Translator while an earlier call
\* for the language still has not returned.
C3_Witness ==
  \E c1, c2 \in 1..Len(calls) :
    /\ c1 < c2
    /\ calls[c1].lang = calls[c2].lang
    /\ calls[c1].status = "pending"

\* ---------------------------------------------------------- timed claims
BurstSpan == burst.last - burst.first

\* What the timed run's first n fragments look like joined by single spaces in
\* admission order: the one-character fragments at the odd positions, a space
\* at every even one.
ExpectedFragments(n) == [i \in 1..n |-> BurstRequest(i).sourceText[1]]
ExpectedText(n) ==
  [i \in 1..(2 * n - 1) |->
     IF i % 2 = 1 THEN BurstRequest((i + 1) \div 2).sourceText[1][1] ELSE SP]

\* While the burst is open nothing has been translated; once it is flushed
\* there is one call, with all of its fragments in order.
OneCallForBurst ==
  IF Has(pendingByLang, BurstLang)
    THEN /\ Len(calls) = 0
         /\ pendingByLang[BurstLang].texts = ExpectedFragments(burst.n)
    ELSE /\ Len(calls) = 1
         /\ calls[1].lang = BurstLang
         /\ calls[1].sourceText = ExpectedText(burst.n)

\* C4 (as amended): fragments admitted for L, each accepted, consecutive ones
\* less than DEBOUNCE_MS apart and all within a span under MAX_WAIT_MS, make
\* exactly one translateText call, whose source text is the fragments joined
\* by single spaces in admission order.
C4_OneCallJoinedInOrder ==
  (burst.n > 0 /\ burst.accepted /\ burst.maxGap < DEBOUNCE_MS
     /\ BurstSpan < MAX_WAIT_MS)
    => OneCallForBurst

\* C4 as stated: consecutive admissions no more than DEBOUNCE_MS apart.
C4_AsStated ==
  (burst.n > 0 /\ burst.accepted /\ burst.maxGap <= DEBOUNCE_MS
     /\ BurstSpan < MAX_WAIT_MS)
    => OneCallForBurst

\* Three fragments or more, with time between them, went out in one call.
C4_Witness ==
  /\ burst.n >= 3
  /\ burst.accepted
  /\ burst.maxGap > 0
  /\ burst.maxGap < DEBOUNCE_MS
  /\ BurstSpan < MAX_WAIT_MS
  /\ ~Has(pendingByLang, BurstLang)
  /\ Len(calls) = 1

\* A pending batch's max-wait timeout has this long to go.
MaxWaitLeft(lk) == timers[pendingByLang[lk].maxTimer].left

\* C5: every pending batch has its max-wait timeout armed; the first batch's
\* runs down from MAX_WAIT_MS as time passes since the first fragment,
\* whatever is admitted meanwhile, so the batch is never pending after
\* MAX_WAIT_MS; a burst (admissions less than DEBOUNCE_MS apart) that goes on
\* to MAX_WAIT_MS is flushed exactly then, and the fragment admitted next is
\* alone in a fresh batch whose own timeout runs from its admission.
C5_MaxWaitBoundsBatch ==
  /\ \A lk \in DOMAIN pendingByLang :
       /\ Has(timers, pendingByLang[lk].maxTimer)
       /\ timers[pendingByLang[lk].maxTimer].kind = "maxWait"
       /\ timers[pendingByLang[lk].maxTimer].lang = lk
  /\ (burst.accepted /\ Len(calls) = 0 /\ Has(pendingByLang, BurstLang))
       => /\ clock - burst.first <= MAX_WAIT_MS
          /\ MaxWaitLeft(BurstLang) = MAX_WAIT_MS - (clock - burst.first)
  /\ (burst.accepted /\ burst.maxGap < DEBOUNCE_MS
        /\ BurstSpan >= MAX_WAIT_MS)
       => IF Len(calls) = 0
            THEN /\ clock = burst.first + MAX_WAIT_MS
                 /\ MaxWaitLeft(BurstLang) = 0
            ELSE /\ calls[1].flushStartMs = burst.first + MAX_WAIT_MS
                 /\ Has(pendingByLang, BurstLang)
                      => /\ pendingByLang[BurstLang].ids = <<burst.n>>
                         /\ pendingByLang[BurstLang].maxTimer
                              # calls[1].batch.maxTimer
                         /\ MaxWaitLeft(BurstLang)
                              = MAX_WAIT_MS - (clock - burst.last)

\* The burst reached MAX_WAIT_MS, was flushed then, and the next fragment has
\* just opened a batch with a full max-wait ahead of it.
C5_Witness ==
  /\ burst.accepted
  /\ burst.maxGap < DEBOUNCE_MS
  /\ Len(calls) = 1
  /\ calls[1].flushStartMs = burst.first + MAX_WAIT_MS
  /\ Has(pendingByLang, BurstLang)
  /\ pendingByLang[BurstLang].ids = <<burst.n>>
  /\ MaxWaitLeft(BurstLang) = MAX_WAIT_MS

\* ------------------------------------------------------ receivers, flush
\* C6: a valid fragment for a language with no registry entry is answered
\* ok: true, accepted: false, and the request leaves the pending batches, both
\* kinds of timeout, the translateText calls and the session log as they were.
C6_NoReceiverNoBatch ==
  [][\A req \in IngestRequests :
       (/\ Ingest(req)
        /\ Validate(req) = "ok"
        /\ Receivers(ToLowerCase(req.lang[1])) = {})
         => /\ http'.status = 200
            /\ http'.ok
            /\ ~http'.accepted
            /\ UNCHANGED <<pendingByLang, timerByLang, timers, calls, sessionLog,
                           totalChunksTranslated>>]_vars

\* A fragment was answered accepted: false while another language, which has
\* a receiver, has a batch pending.
C6_Witness ==
  /\ http.status = 200
  /\ http.ok
  /\ ~http.accepted
  /\ http.clientCount = 0
  /\ pendingByLang # EmptyMap

\* Every batch, pending or handed to translateText.
Batches ==
  {pendingByLang[lk] : lk \in DOMAIN pendingByLang}
    \cup {calls[c].batch : c \in 1..Len(calls)}

\* C7 (as amended): every fragment of a batch, so every fragment the
\* Translator is ever invoked with, was admitted while its language had at
\* least one subscriber registered.
C7_AdmittedWhileHeard ==
  \A b \in Batches : \A i \in 1..Len(b.heardBy) : b.heardBy[i] > 0

\* C7 as stated: when translateText is called for a language, the language has
\* a subscriber registered.
C7_AsStated ==
  [][Len(calls') > Len(calls)
       => Receivers(calls'[Len(calls')].lang) # {}]_vars

\* The Translator has been given a batch of a language that has no
\* subscriber left.
C7_Witness ==
  \E c \in 1..Len(calls) :
    /\ calls[c].status = "pending"
    /\ Receivers(calls[c].lang) = {}
    /\ \A i \in 1..Len(calls[c].batch.heardBy) : calls[c].batch.heardBy[i] > 0

\* The translateText calls of a language.
CallsFor(lk) == {c \in 1..Len(calls) : calls[c].lang = lk}

\* C8: once flushLang(lk) has been invoked since the language's last
\* admission, the batch is out of the map and its fragments are in exactly one
\* translateText call, however often it is invoked again; an invocation
\* with a batch makes one call, an invocation without one changes nothing.
C8_FlushIdempotent ==
  /\ [](\A lk \in DOMAIN flushCount :
          flushCount[lk] >= 1
            => /\ ~Has(pendingByLang, lk)
               /\ ~Has(timerByLang, lk)
               /\ \A n \in 1..nIngest :
                    Cardinality(CallsWith(n)) <= 1)
  /\ [][\A lk \in IngestLangs :
          FlushInvoked(lk)
            => IF Has(pendingByLang, lk)
                 THEN /\ Len(calls') = Len(calls) + 1
                      /\ calls'[Len(calls')].batch = pendingByLang[lk]
                 ELSE UNCHANGED <<registry, output, visitorSettings,
                                  pendingByLang, timerByLang, timers, timerSeq,
                                  calls, http, nIngest, timing>>]_vars

\* flushLang has run twice since the language's last admission and the
\* language's one batch has gone to the Translator once.
C8_Witness ==
  \E lk \in DOMAIN flushCount :
    /\ flushCount[lk] = 2
    /\ Cardinality(CallsFor(lk)) = 1

\* C9: a failing translateText call leaves the pending batches, the timeouts,
\* the session log, totalChunksTranslated, the event counter, the registry and
\* everything written to the subscribers as they were and starts no new call;
\* a failed call stays failed.
C9_FailedBatchDropped ==
  /\ [][\A c \in 1..Len(calls), reply \in Replies :
          TranslationFails(c, reply)
            => /\ UNCHANGED <<pendingByLang, timerByLang, timers, sessionLog,
                              totalChunksTranslated, globalEventId, wire,
                              sseClients>>
               /\ Len(calls') = Len(calls)
               /\ calls'[c].status = "failed"]_vars
  /\ [][\A c \in 1..Len(calls) :
          calls[c].status = "failed" => calls'[c] = calls[c]]_vars

\* A call has failed while its language has a subscriber, who got no chunk.
C9_Witness ==
  \E c \in 1..Len(calls) :
    /\ calls[c].status = "failed"
    /\ \E id \in Receivers(calls[c].lang) :
         \A i \in 1..Len(wire[id]) : wire[id][i].event # "chunk"

\* C10: a reply without translated text gets the batch dropped like a failure:
\* no session log entry and no chunk event carries an empty translation.
C10_NoTextNoChunk ==
  /\ \A i \in 1..Len(sessionLog) : sessionLog[i].translatedText # << >>
  /\ \A id \in DOMAIN wire : \A i \in 1..Len(wire[id]) :
       wire[id][i].event = "chunk" => wire[id][i].data.text # << >>

\* ------------------------------------------------------------- delivery
\* Where the chunk event of call c is in the events written to a connection.
ChunksFor(c, w) ==
  {i \in 1..Len(w) : w[i].event = "chunk" /\ w[i].id = <<calls[c].chunkId>>}

\* The last event written to a connection.
Last(w) == w[Len(w)]

\* A call has a chunk event exactly when its translation succeeded, no two
\* calls share one, no connection is written the chunk of a call twice, and
\* every chunk written carries the translation of a call that succeeded.
OneChunkPerSuccess ==
  /\ \A c \in 1..Len(calls) :
       /\ (calls[c].status = "done") <=> (calls[c].chunkId > 0)
       /\ \A d \in 1..Len(calls) :
            (c # d /\ calls[c].status = "done") => calls[d].chunkId # calls[c].chunkId
       /\ \A id \in DOMAIN wire : Cardinality(ChunksFor(c, wire[id])) <= 1
  /\ \A id \in DOMAIN wire : \A i \in 1..Len(wire[id]) :
       wire[id][i].event = "chunk"
         => \E c \in 1..Len(calls) :
              /\ calls[c].status = "done"
              /\ i \in ChunksFor(c, wire[id])
              /\ wire[id][i].data.text = calls[c].translated
              /\ wire[id][i].data.seq = calls[c].batch.seq

\* The connection of `id` gets the chunk of call c as its next event.
GetsChunk(id, c) ==
  /\ wire'[id] = Append(wire[id], Last(wire'[id]))
  /\ Last(wire'[id]).event = "chunk"
  /\ Last(wire'[id]).id = <<calls'[c].chunkId>>

\* C11 (as amended): a batch whose translation succeeds gets exactly one chunk
\* event, and when translateText returns that event is written once to every
\* connection that is registered for the language at that moment and whose
\* write succeeds, and to no other: a subscriber that joined after the flush
\* gets it, one that has closed gets nothing.
C11_ChunkToThoseRegistered ==
  /\ []OneChunkPerSuccess
  /\ [][\A c \in 1..Len(calls), reply \in Replies :
          TranslationReturns(c, reply)
            => \A id \in DOMAIN wire :
                 IF /\ id \in DOMAIN sseClients
                    /\ sseClients[id].lang = calls[c].lang
                    /\ conn[id] = "live"
                   THEN GetsChunk(id, c)
                   ELSE wire'[id] = wire[id]]_vars

\* C11 as stated: the chunk reaches every subscriber of the language that is
\* registered when the translation completes.
C11_AsStated ==
  [][\A c \in 1..Len(calls), reply \in Replies :
       TranslationReturns(c, reply)
         => \A id \in DOMAIN sseClients :
              sseClients[id].lang = calls[c].lang => GetsChunk(id, c)]_vars

\* A subscriber that joined after the flush has the chunk of the call, and a
\* client that was there before the flush has closed.
C11_Witness ==
  \E c \in 1..Len(calls) :
    /\ calls[c].status = "done"
    /\ \E id \in DOMAIN sseClients :
         /\ id > calls[c].joined
         /\ ChunksFor(c, wire[id]) # {}
    /\ \E j \in 1..calls[c].joined : j \notin DOMAIN conn

\* ------------------------------------------------------------ broadcast
\* The language a connection asked for, as its hello event says.
LangOf(id) == wire[id][1].data.lang

\* The connections a step writes to.
Written == {id \in DOMAIN wire : wire'[id] # wire[id]}

\* C12: a broadcast for language L writes only to registry entries of L: the
\* chunk of a call and the settings event of an update go to no connection
\* registered with another language, and every chunk a connection has been
\* written is of a call for the connection's language.
C12_OnlyMatchingLanguage ==
  /\ [](\A id \in DOMAIN wire : \A c \in 1..Len(calls) :
          ChunksFor(c, wire[id]) # {} => calls[c].lang = LangOf(id))
  /\ [][\A c \in 1..Len(calls), reply \in Replies :
          TranslationReturns(c, reply)
            => \A id \in Written :
                 id \in DOMAIN sseClients /\ sseClients[id].lang = calls[c].lang]_vars
  /\ [][\A req \in SettingsRequests :
          VisitorSettings(req)
            => \A id \in Written :
                 /\ id \in DOMAIN sseClients
                 /\ sseClients[id].lang = ToLowerCase(req.lang[1])]_vars

\* Two live subscribers of different languages: one has been written a chunk
\* or a settings update that was broadcast after the other had connected, and
\* the other has been written nothing but its hello.
C12_Witness ==
  \E id, other \in DOMAIN sseClients :
    /\ sseClients[id].lang # sseClients[other].lang
    /\ conn[id] = "live" /\ conn[other] = "live"
    /\ Len(wire[other]) = 1
    /\ \E i \in 2..Len(wire[id]) :
         /\ wire[id][i].event \in {"chunk", "settings"}
         /\ wire[id][i].id # << >>
         /\ wire[id][i].id[1] > wire[other][1].id[1]

\* The registry entries of a language whose connection takes a write.
LiveOf(lk) ==
  {id \in DOMAIN sseClients : sseClients[id].lang = lk /\ conn[id] = "live"}

\* The connection of `id` gets the settings update as its next event.
GetsSettings(id) ==
  /\ wire'[id] = Append(wire[id], Last(wire'[id]))
  /\ Last(wire'[id]).event = "settings"
  /\ Last(wire'[id]).id = <<globalEventId'>>

\* C13: whichever entries of the language fail, a broadcast writes the payload
\* to every entry of the language whose write succeeds, and the count it
\* returns (the `sent` of the /visitor-settings response) is the number of
\* those.
C13_FailureDoesNotStopBroadcast ==
  /\ [][\A req \in SettingsRequests :
          (VisitorSettings(req) /\ req.lang # << >>)
            => /\ \A id \in LiveOf(ToLowerCase(req.lang[1])) : GetsSettings(id)
               /\ settingsHttp'.ok
               /\ settingsHttp'.sent
                    = Cardinality(LiveOf(ToLowerCase(req.lang[1])))
               /\ settingsHttp'.sent = Cardinality(Written)]_vars
  /\ [][\A c \in 1..Len(calls), reply \in Replies :
          TranslationReturns(c, reply)
            => \A id \in LiveOf(calls[c].lang) : GetsChunk(id, c)]_vars

\* A settings update, the only broadcast so far, failed for the entry that
\* came first in the registry (it is gone, its heartbeat still set) and was
\* written to a later entry of the same language; the response counts one.
C13_Witness ==
  /\ Len(calls) = 0
  /\ settingsHttp.status = 200
  /\ settingsHttp.sent = 1
  /\ \E failed, id \in DOMAIN conn :
       /\ failed < id
       /\ conn[failed] = "broken"
       /\ failed \in hbTimers
       /\ failed \notin DOMAIN sseClients
       /\ id \in DOMAIN sseClients
       /\ LangOf(failed) = sseClients[id].lang
       /\ Last(wire[id]).event = "settings"
       /\ Last(wire[id]).id = <<globalEventId>>

\* The registry entries of a language whose connection throws on a write.
DeadOf(lk) ==
  {id \in DOMAIN sseClients : sseClients[id].lang = lk /\ conn[id] # "live"}

\* C14: a broadcast with failing writes still returns to its caller (the
\* /visitor-settings request is answered 200, the flush is not diverted to its
\* catch), every entry whose write failed is out of the registry when it
\* returns, no other entry is, and /status reports the registry as it then
\* is: clients its size, byLang the entries of each language.
C14_FailedSubscribersPruned ==
  /\ [][\A req \in SettingsRequests :
          (VisitorSettings(req) /\ req.lang # << >>)
            => /\ settingsHttp'.status = 200
               /\ DOMAIN sseClients'
                    = DOMAIN sseClients \ DeadOf(ToLowerCase(req.lang[1]))]_vars
  /\ [][\A c \in 1..Len(calls), reply \in Replies :
          TranslationReturns(c, reply)
            => /\ calls'[c].status = "done"
               /\ DOMAIN sseClients' = DOMAIN sseClients \ DeadOf(calls[c].lang)]_vars
  /\ [][Status
          => /\ statusHttp'.clients = Cardinality(DOMAIN sseClients)
             /\ \A l \in SseLangs :
                  IF \E id \in DOMAIN sseClients : sseClients[id].lang = l
                    THEN /\ l \in DOMAIN statusHttp'.byLang
                         /\ statusHttp'.byLang[l]
                              = Cardinality({id \in DOMAIN sseClients :
                                               sseClients[id].lang = l})
                    ELSE l \notin DOMAIN statusHttp'.byLang]_vars

\* The broadcast of a chunk failed for an entry (it is out of the registry,
\* its connection and heartbeat still there), and a /status call made after
\* that has no entry of its language to report.
C14_Witness ==
  /\ nSettings = 0
  /\ statusHttp.status = 200
  /\ statusHttp.totalChunksTranslated = 1
  /\ statusHttp.clients = Cardinality(DOMAIN sseClients)
  /\ \E failed \in DOMAIN conn :
       /\ conn[failed] = "broken"
       /\ failed \in hbTimers
       /\ failed \notin DOMAIN sseClients
       /\ LangOf(failed) \notin DOMAIN statusHttp.byLang

\* ---------------------------------------------------------- session log
\* C15: the session log never has more than LOG_MAX entries; a step leaves it
\* alone, or appends one entry to a log that is not full, or drops the oldest
\* entry of a full log and appends one, the entries that stay being as they
\* were and in the order they were; the entries are those of the last
\* translated batches, oldest first, so with fragments numbered in the order
\* sent their numbers ascend.
C15_LogBoundedFifo ==
  /\ [](Len(sessionLog) <= LOG_MAX)
  /\ [](\A i \in 1..(Len(sessionLog) - 1) :
          sessionLog[i].seq[1] < sessionLog[i + 1].seq[1])
  /\ [][\/ sessionLog' = sessionLog
        \/ /\ Len(sessionLog) < LOG_MAX
           /\ sessionLog' = Append(sessionLog, Last(sessionLog'))
        \/ /\ Len(sessionLog) = LOG_MAX
           /\ sessionLog' = Append(Tail(sessionLog), Last(sessionLog'))]_vars

\* The log was full and one more batch has been translated: the entry of the
\* first batch is gone, that of the second is the oldest, the newest is last.
C15_Witness ==
  /\ totalChunksTranslated = LOG_MAX + 1
  /\ Len(sessionLog) = LOG_MAX
  /\ sessionLog[1].seq = <<2>>
  /\ Last(sessionLog).seq[1] > LOG_MAX

\* ------------------------------------------------------------- event ids
\* C16: every event written to a subscriber (hello, settings on connect,
\* settings on update, chunk, ping) carries an id.
C16_EveryEventHasId ==
  \A id \in DOMAIN wire : \A i \in 1..Len(wire[id]) : wire[id][i].id # << >>

\* The positions of the events of a connection that carry an id.
WithId(w) == {i \in 1..Len(w) : w[i].id # << >>}

\* C17: the event counter never decreases, every id written is one the
\* counter has given out, two events with the same id are the same event
\* (one broadcast, written to several subscribers), and the ids a subscriber
\* is written ascend strictly in the order of writing.
C17_IdsMonotonic ==
  /\ [][globalEventId' >= globalEventId]_vars
  /\ [](\A id \in DOMAIN wire :
          /\ \A i \in WithId(wire[id]) :
               wire[id][i].id[1] >= 1 /\ wire[id][i].id[1] <= globalEventId
          /\ \A i, j \in WithId(wire[id]) :
               i < j => wire[id][i].id[1] < wire[id][j].id[1])
  /\ [](\A id, other \in DOMAIN wire :
          \A i \in WithId(wire[id]), j \in WithId(wire[other]) :
            wire[id][i].id = wire[other][j].id => wire[id][i] = wire[other][j])

\* A subscriber has been written its hello, a settings update and a chunk,
\* while a subscriber of the other language was written events in between.
C17_Witness ==
  \E id, other \in DOMAIN wire :
    /\ LangOf(id) # LangOf(other)
    /\ \E i, j \in WithId(wire[id]) :
         /\ wire[id][i].event = "settings"
         /\ wire[id][j].event = "chunk"
         /\ \E k \in WithId(wire[other]) :
              /\ wire[id][1].id[1] < wire[other][k].id[1]
              /\ wire[other][k].id[1] < wire[id][i].id[1]
              /\ wire[other][k].id[1] < wire[id][j].id[1]

\* ----------------------------------------------------------- validation
\* C18: a request that does not pass the validation is answered 400 with
\* ok: false and a reason, and leaves the pending batches, both kinds of
\* timeout, the registry, the session log and the visitor settings as they
\* were.
C18_InvalidRejectedUnchanged ==
  [][\A req \in BadRequests :
       Ingest(req)
         => /\ http'.status = 400
            /\ ~http'.ok
            /\ http'.error # ""
            /\ UNCHANGED <<pendingByLang, timerByLang, timers, sseClients,
                           sessionLog, visitorSettings>>]_vars

\* ------------------------------------------------------ ingest response
\* C19: the request of a fragment is answered in the turn that admits it,
\* when no translateText call has its batch yet (every fragment of a call is
\* of a request already answered); the response is written by the /ingest
\* handler alone: a translateText call that returns or fails, and a broadcast
\* whose writes fail, leave it as it was.
C19_AnsweredBeforeTranslation ==
  /\ [](\A c \in 1..Len(calls) : \A i \in 1..Len(calls[c].batch.ids) :
          calls[c].batch.ids[i] <= nIngest)
  /\ [][\A req \in IngestRequests :
          Ingest(req)
            => /\ calls' = calls
               /\ \A c \in 1..Len(calls) : \A i \in 1..Len(calls[c].batch.ids) :
                    calls[c].batch.ids[i] # nIngest']_vars
  /\ [][http' # http => (nIngest' = nIngest + 1 /\ calls' = calls)]_vars
  /\ [][\A c \in 1..Len(calls), reply \in Replies :
          (TranslationFails(c, reply) \/ TranslationReturns(c, reply))
            => http' = http]_vars

\* The last request was answered accepted: true, and the call with its
\* fragment has failed since.
C19_Witness ==
  /\ http.status = 200
  /\ http.accepted
  /\ \E c \in CallsWith(nIngest) : calls[c].status = "failed"

\* The language of a valid request.
LangKey(req) == ToLowerCase(req.lang[1])

\* The fragment of request n is the last of the pending batch of lk.
LastPending(lk, n, req) ==
  /\ Has(pendingByLang', lk)
  /\ Last(pendingByLang'[lk].ids) = n
  /\ Last(pendingByLang'[lk].texts) = req.sourceText[1]

\* C20: in a 200 response of /ingest, clientCount is the number of registry
\* entries of the fragment's language when the request is handled,
\* hasReceiver is clientCount > 0, accepted is hasReceiver, and the fragment
\* goes into the language's pending batch exactly when accepted is true (the
\* pending batches stay as they were when it is false).
C20_ResponseCountsReceivers ==
  [][\A req \in IngestRequests :
       (Ingest(req) /\ http'.status = 200)
         => /\ http'.clientCount
                 = Cardinality({id \in DOMAIN sseClients :
                                  sseClients[id].lang = LangKey(req)})
            /\ http'.hasReceiver = (http'.clientCount > 0)
            /\ http'.accepted = http'.hasReceiver
            /\ http'.accepted = LastPending(LangKey(req), nIngest', req)
            /\ ~http'.accepted => pendingByLang' = pendingByLang]_vars

\* Two subscribers registered, one of them for the fragment's language: the
\* response counts one and the fragment is the last of the pending batch.
C20_Witness ==
  /\ Cardinality(DOMAIN sseClients) = 2
  /\ http.status = 200
  /\ http.clientCount = 1
  /\ http.hasReceiver
  /\ http.accepted
  /\ \E lk \in DOMAIN pendingByLang :
       /\ Last(pendingByLang[lk].ids) = nIngest
       /\ Cardinality(Receivers(lk)) = 1

\* ------------------------------------------------------- visitor settings
\* A rate clamped to [RATE_MIN, RATE_MAX].
Clamped(r) == IF r < RATE_MIN THEN RATE_MIN ELSE IF r > RATE_MAX THEN RATE_MAX ELSE r

\* C21: /visitor-settings stores for the language the submitted rate clamped
\* to [0.5, 2.0] (below 0.5 stored as 0.5, above 2.0 as 2.0, inside
\* unchanged), and every stored rate is within [0.5, 2.0].
C21_StoredRateClamped ==
  /\ [](\A l \in DOMAIN visitorSettings :
          /\ visitorSettings[l].ttsRate >= RATE_MIN
          /\ visitorSettings[l].ttsRate <= RATE_MAX)
  /\ [][\A req \in RateRequests :
          VisitorSettings(req)
            => /\ Has(visitorSettings', ToLowerCase(req.lang[1]))
               /\ visitorSettings'[ToLowerCase(req.lang[1])].ttsRate
                    = Clamped(req.ttsRate[1])]_vars

\* C22: a new subscriber of language L is written hello first, with the id
\* it was given and with L, and when visitorSettings has a value for L the
\* settings event with that value directly after, all in the step that
\* registers it (nothing else is written, stored or flushed in that step, and
\* no registry entry is ever without its hello); chunks and pings come after.
C22_HelloThenSettings ==
  /\ [](\A id \in DOMAIN sseClients :
          /\ id \in DOMAIN wire
          /\ sseClients[id].lang = wire[id][1].data.lang)
  /\ [](\A id \in DOMAIN wire :
          /\ Len(wire[id]) >= 1
          /\ wire[id][1].event = "hello"
          /\ wire[id][1].data.clientId = id
          /\ \A i \in 2..Len(wire[id]) :
               /\ wire[id][i].event # "hello"
               /\ (wire[id][i].event = "settings" /\ wire[id][i].id = << >>)
                    => i = 2)
  /\ [][\A l \in SseLangs :
          SseConnect(l)
            => LET id == clientCounter'
               IN /\ id \notin DOMAIN wire
                  /\ id \in DOMAIN sseClients'
                  /\ wire'[id][1].data = [lang |-> l, clientId |-> id]
                  /\ IF l \in DOMAIN visitorSettings
                       THEN /\ Len(wire'[id]) = 2
                            /\ wire'[id][2].event = "settings"
                            /\ wire'[id][2].data.ttsRate
                                 = visitorSettings[l].ttsRate
                       ELSE Len(wire'[id]) = 1
                  /\ \A other \in DOMAIN wire : wire'[other] = wire[other]
                  /\ UNCHANGED <<visitorSettings, pendingByLang, timers,
                                 calls, sessionLog>>]_vars

\* A subscriber that came after the rate of its language was set has been
\* written hello, the stored rate, and then a chunk.
C22_Witness ==
  \E id \in DOMAIN sseClients :
    /\ Len(wire[id]) >= 3
    /\ wire[id][2].event = "settings"
    /\ wire[id][2].id = << >>
    /\ wire[id][2].data = visitorSettings[sseClients[id].lang]
    /\ wire[id][3].event = "chunk"

\* C23: visitorSettings is latest-write-wins per language: a /visitor-settings
\* call for L stores the clamped rate of that call for L and leaves the value
\* of every other language alone, writes a settings event with the new value
\* to the registry entries of L (those whose write succeeds) and to no other
\* connection, and answers with sent the number of connections written; no
\* other operation changes a stored value.
C23_LatestWriteWins ==
  /\ [][\A req \in RateRequests :
          VisitorSettings(req)
            => LET lk == ToLowerCase(req.lang[1])
               IN /\ DOMAIN visitorSettings' = DOMAIN visitorSettings \cup {lk}
                  /\ visitorSettings'[lk].ttsRate = Clamped(req.ttsRate[1])
                  /\ \A l \in DOMAIN visitorSettings \ {lk} :
                       visitorSettings'[l] = visitorSettings[l]
                  /\ \A id \in DOMAIN wire :
                       IF id \in LiveOf(lk)
                         THEN /\ GetsSettings(id)
                              /\ Last(wire'[id]).data = visitorSettings'[lk]
                         ELSE wire'[id] = wire[id]
                  /\ settingsHttp'.ok
                  /\ settingsHttp'.sent = Cardinality(LiveOf(lk))]_vars
  /\ [][visitorSettings' # visitorSettings
         => \E req \in RateRequests : VisitorSettings(req)]_vars

\* ------------------------------------------------------------- presets
\* C24: the suggestedPreset of an /ingest response is the preset of the most
\* recent suggestion recorded for the fragment's language, the language
\* taken without regard to letter case as everywhere else in /ingest, and
\* null when none was recorded for it.
C24_PresetOfLanguage ==
  [][\A req \in PresetFragments :
       (Ingest(req) /\ http'.status = 200)
         => http'.suggestedPreset
              = (IF Has(lastSuggested, LangKey(req))
                   THEN <<lastSuggested[LangKey(req)]>>
                   ELSE << >>)]_vars

\* ---------------------------------------------------------- disconnects
\* C25: a close leaves every translateText call as it was, and a pending
\* call stays pending until the Translator answers it; when it returns and
\* the language has no registry entry left, the batch is counted and logged
\* as any other, nothing is written to any connection, the registry stays as
\* it was and the call ends as done (the broadcast returned 0), not as failed.
C25_DisconnectKeepsTranslation ==
  /\ [][\A id \in DOMAIN conn :
          Close(id) => /\ calls' = calls
                       /\ UNCHANGED <<sessionLog, totalChunksTranslated,
                                      pendingByLang, timers>>]_vars
  /\ [][\A c \in 1..Len(calls) :
          (calls[c].status = "pending" /\ calls'[c].status # "pending")
            => \E reply \in Replies :
                 TranslationReturns(c, reply) \/ TranslationFails(c, reply)]_vars
  /\ [][\A c \in 1..Len(calls), reply \in Replies :
          (TranslationReturns(c, reply) /\ Receivers(calls[c].lang) = {})
            => /\ calls'[c].status = "done"
               /\ calls'[c].sent = 0
               /\ totalChunksTranslated' = totalChunksTranslated + 1
               /\ Len(sessionLog') = Len(sessionLog) + 1
               /\ Last(sessionLog').lang = calls[c].lang
               /\ Last(sessionLog').seq = calls[c].batch.seq
               /\ Last(sessionLog').sourceText = calls[c].sourceText
               /\ UNCHANGED <<wire, sseClients>>]_vars

\* The one subscriber there was when the batch was flushed has closed, and
\* the call has returned since: it is done, its broadcast reached nobody and
\* the session log has its entry.
C25_Witness ==
  \E c \in 1..Len(calls) :
    /\ calls[c].status = "done"
    /\ calls[c].sent = 0
    /\ calls[c].joined = 1
    /\ 1 \notin DOMAIN conn
    /\ \E i \in 1..Len(sessionLog) :
         /\ sessionLog[i].lang = calls[c].lang
         /\ sessionLog[i].sourceText = calls[c].sourceText

\* ---------------------------------------------------------------- timers
\* The active timeouts of one kind that were armed for a language.
TimersOf(active, lk, kind) ==
  {h \in DOMAIN active : active[h].lang = lk /\ active[h].kind = kind}

\* The fragment that opened a batch.
FirstOf(batch) == batch.ids[1]

\* C26: a language has at most one active debounce timeout, the one
\* timerByLang holds, and its active max-wait timeouts are exactly the one of
\* its pending batch (none without a batch). An accepted fragment clears the
\* debounce timeout there was and arms a new one with the full delay; it arms
\* a max-wait timeout with the full delay when it opens a batch and leaves
\* the batch's timeout as it is when it joins one. While a batch is pending
\* its max-wait timeout stays the same and only runs down, and when the
\* batch leaves the map the language has no active timeout left.
C26_TimerDiscipline ==
  /\ [](\A lk \in IngestLangs :
          /\ Cardinality(TimersOf(timers, lk, "debounce")) <= 1
          /\ TimersOf(timers, lk, "debounce")
               = (IF Has(timerByLang, lk) THEN {timerByLang[lk]} ELSE {})
          /\ TimersOf(timers, lk, "maxWait")
               = (IF Has(pendingByLang, lk)
                    THEN {pendingByLang[lk].maxTimer} ELSE {}))
  /\ [][\A req \in IngestRequests :
          (Ingest(req) /\ http'.status = 200 /\ http'.accepted)
            => LET lk == LangKey(req)
                   deb == timerByLang'[lk]
                   max == pendingByLang'[lk].maxTimer
               IN /\ Has(timerByLang, lk) => ~Has(timers', timerByLang[lk])
                  /\ ~Has(timers, deb)
                  /\ timers'[deb].left = DEBOUNCE_MS
                  /\ IF Has(pendingByLang, lk)
                       THEN /\ max = pendingByLang[lk].maxTimer
                            /\ timers'[max] = timers[max]
                       ELSE /\ ~Has(timers, max)
                            /\ timers'[max].left = MAX_WAIT_MS]_vars
  /\ [][\A lk \in IngestLangs :
          Has(pendingByLang, lk)
            => IF /\ Has(pendingByLang', lk)
                  /\ FirstOf(pendingByLang'[lk]) = FirstOf(pendingByLang[lk])
                 THEN LET max == pendingByLang[lk].maxTimer
                      IN /\ pendingByLang'[lk].maxTimer = max
                         /\ timers'[max].left <= timers[max].left
                 ELSE /\ ~Has(pendingByLang', lk)
                      /\ TimersOf(timers', lk, "debounce") = {}
                      /\ TimersOf(timers', lk, "maxWait") = {}]_vars

\* A batch has taken a second fragment after time has passed: the language
\* has one debounce timeout with the full delay ahead and the batch's
\* max-wait timeout, armed with the first fragment, has run down.
C26_Witness ==
  \E lk \in DOMAIN pendingByLang :
    /\ Len(pendingByLang[lk].ids) = 2
    /\ timers[timerByLang[lk]].left = DEBOUNCE_MS
    /\ timers[pendingByLang[lk].maxTimer].left < MAX_WAIT_MS
    /\ pendingByLang[lk].maxTimer < timerByLang[lk] - 1

\* C27: every active timeout of a language was armed for the batch the
\* language has pending now (handles are given out in arming order and a
\* batch's max-wait timeout is the first armed for it), so there is none
\* without a pending batch; and a timeout that fires finds that batch and
\* flushes it: a max-wait timeout is the batch's own, a debounce timeout was
\* armed after the batch was opened, and either was armed after every batch
\* of the language flushed before.
C27_TimersFlushOwnBatch ==
  /\ [](\A h \in DOMAIN timers :
          /\ Has(pendingByLang, timers[h].lang)
          /\ h >= pendingByLang[timers[h].lang].maxTimer)
  /\ [][\A h \in DOMAIN timers :
          (DebounceTimeout(h) \/ MaxWaitTimeout(h))
            => LET lk == timers[h].lang
               IN /\ Has(pendingByLang, lk)
                  /\ Len(calls') = Len(calls) + 1
                  /\ Last(calls').batch = pendingByLang[lk]
                  /\ IF timers[h].kind = "maxWait"
                       THEN h = pendingByLang[lk].maxTimer
                       ELSE h > pendingByLang[lk].maxTimer
                  /\ \A c \in CallsFor(lk) : h > calls[c].batch.maxTimer
                  /\ \A g \in DOMAIN timers' : timers'[g].lang # lk]_vars

\* Two batches of a language have been flushed one after the other, each by a
\* timeout of its own, and the language has no timeout left.
C27_Witness ==
  \E c1, c2 \in 1..Len(calls) :
    /\ c1 < c2
    /\ calls[c1].lang = calls[c2].lang
    /\ calls[c2].batch.maxTimer > calls[c1].batch.maxTimer + 1
    /\ ~Has(pendingByLang, calls[c1].lang)
    /\ \A h \in DOMAIN timers : timers[h].lang # calls[c1].lang

\* ----------------------------------------------------- calls in flight
\* The translateText calls of a language that have not come back.
InFlight(lk) == {c \in CallsFor(lk) : calls[c].status = "pending"}

\* C28: while a call for L is in flight, an accepted fragment for L leaves
\* every call as it is and goes into the pending batch of L: with none
\* pending it is alone in a new batch, which gets a max-wait and a debounce
\* timeout of its own with the full delays; and a timeout of L that fires
\* meanwhile starts a further call with the pending batch, the calls in
\* flight staying in flight.
C28_NewBatchWhileInFlight ==
  /\ [][\A req \in IngestRequests :
          (/\ Ingest(req)
           /\ http'.status = 200
           /\ http'.accepted
           /\ InFlight(LangKey(req)) # {})
            => LET lk == LangKey(req)
                   batch == pendingByLang'[lk]
               IN /\ calls' = calls
                  /\ \A c \in InFlight(lk) :
                       /\ \A i \in 1..Len(batch.ids) :
                            \A j \in 1..Len(calls[c].batch.ids) :
                              batch.ids[i] # calls[c].batch.ids[j]
                       /\ batch.maxTimer > calls[c].batch.maxTimer
                  /\ Last(batch.ids) = nIngest'
                  /\ ~Has(pendingByLang, lk)
                       => /\ batch.ids = <<nIngest'>>
                          /\ batch.texts = <<req.sourceText[1]>>
                          /\ ~Has(timers, batch.maxTimer)
                          /\ timers'[batch.maxTimer].left = MAX_WAIT_MS
                          /\ timers'[timerByLang'[lk]].left = DEBOUNCE_MS]_vars
  /\ [][\A h \in DOMAIN timers :
          ((DebounceTimeout(h) \/ MaxWaitTimeout(h))
             /\ InFlight(timers[h].lang) # {})
            => /\ Len(calls') = Len(calls) + 1
               /\ Last(calls').status = "pending"
               /\ Last(calls').batch = pendingByLang[timers[h].lang]
               /\ \A c \in 1..Len(calls) : calls'[c] = calls[c]]_vars

\* Two calls for one language are in flight at once, the first with the
\* first fragment, the second with the fragment admitted after its flush.
C28_Witness ==
  \E c1, c2 \in 1..Len(calls) :
    /\ c1 < c2
    /\ calls[c1].lang = calls[c2].lang
    /\ calls[c1].status = "pending"
    /\ calls[c2].status = "pending"
    /\ calls[c1].batch.ids = <<1>>
    /\ calls[c2].batch.ids = <<2>>

\* ---------------------------------------------------------- independence
\* A step leaves what the pipeline holds for the languages other than lk as
\* it was: their pending batches, their debounce and max-wait timeouts, and
\* their registry entries.
OthersUntouched(lk) ==
  /\ \A o \in SseLangs \ {lk} :
       /\ Has(pendingByLang', o) = Has(pendingByLang, o)
       /\ Has(pendingByLang, o) => pendingByLang'[o] = pendingByLang[o]
       /\ Has(timerByLang', o) = Has(timerByLang, o)
       /\ Has(timerByLang, o) => timerByLang'[o] = timerByLang[o]
  /\ \A h \in DOMAIN timers :
       timers[h].lang # lk => (Has(timers', h) /\ timers'[h] = timers[h])
  /\ \A h \in DOMAIN timers' :
       timers'[h].lang # lk => Has(timers, h)
  /\ \A id \in DOMAIN sseClients :
       sseClients[id].lang # lk
         => (Has(sseClients', id) /\ sseClients'[id] = sseClients[id])

\* C29: a fragment accepted or not for L, a debounce or max-wait timeout of L
\* firing (a flush of L), a translateText call for L failing, and one
\* returning with its broadcast, failed writes included, leave the pending
\* batch and the timeouts of every other language as they were and delete no
\* registry entry of another language.
C29_LanguagesIndependent ==
  /\ [][\A req \in IngestRequests :
          (Ingest(req) /\ http'.status = 200) => OthersUntouched(LangKey(req))]_vars
  /\ [][\A h \in DOMAIN timers :
          (DebounceTimeout(h) \/ MaxWaitTimeout(h))
            => OthersUntouched(timers[h].lang)]_vars
  /\ [][\A c \in 1..Len(calls), reply \in Replies :
          (TranslationFails(c, reply) \/ TranslationReturns(c, reply))
            => OthersUntouched(calls[c].lang)]_vars

\* The broadcast of a chunk found the one entry of its language broken and
\* deleted it, while the other language keeps its entry, broken too, and its
\* pending batch.
C29_Witness ==
  \E c \in 1..Len(calls) :
    /\ calls[c].status = "done"
    /\ calls[c].sent = 0
    /\ \E dead \in DOMAIN conn \ DOMAIN sseClients :
         /\ conn[dead] = "broken"
         /\ LangOf(dead) = calls[c].lang
    /\ \E id \in DOMAIN sseClients :
         /\ sseClients[id].lang # calls[c].lang
         /\ conn[id] = "broken"
         /\ Has(pendingByLang, sseClients[id].lang)

\* ------------------------------------------------------ unheard fragments
\* C30: a valid fragment that arrives when its language has no registry entry
\* is acknowledged (ok: true, accepted: false, clientCount 0) and leaves the
\* pipeline as it was: the batch open for the language keeps its texts,
\* sequence number, timestamp and max-wait timeout, the debounce timeout is
\* the one it was, both go on running down from where they were, and no
\* timeout is armed and no call made.
C30_UnheardLeavesBatch ==
  [][(/\ Ingest(BurstRequest(nIngest + 1))
      /\ Receivers(BurstLang) = {})
       => /\ http'.status = 200
          /\ http'.ok
          /\ ~http'.accepted
          /\ http'.clientCount = 0
          /\ UNCHANGED <<pendingByLang, timerByLang, timers, timerSeq, calls>>]_vars

\* The subscriber left with a batch open, and the fragment that came after,
\* acknowledged but not accepted, is not in it: the batch has the first
\* fragment only and its timeouts are part run down.
C30_Witness ==
  /\ nIngest = 2
  /\ http.status = 200
  /\ ~http.accepted
  /\ Receivers(BurstLang) = {}
  /\ Has(pendingByLang, BurstLang)
  /\ pendingByLang[BurstLang].ids = <<1>>
  /\ pendingByLang[BurstLang].seq = <<1>>
  /\ timers[timerByLang[BurstLang]].left < DEBOUNCE_MS
  /\ MaxWaitLeft(BurstLang) < MAX_WAIT_MS

\* ------------------------------------------------- what a chunk carries
\* The largest of a set of positions.
Max(S) == CHOOSE x \in S : \A y \in S : x >= y

\* The sequence number of the last fragment that had one, if any had.
LastSupplied(seqs) ==
  LET given == {i \in 1..Len(seqs) : seqs[i] # << >>}
  IN IF given = {} THEN << >> ELSE seqs[Max(given)]

\* The chunk events written for call c, on whatever connection.
ChunksOf(c) ==
  UNION {{wire[id][i] : i \in ChunksFor(c, wire[id])} : id \in DOMAIN wire}

\* C31 (as amended): a batch's sequence number is that of the fragment
\* admitted last, none when that fragment had none, whatever the numbers of
\* the fragments before and their order; the chunk event and the session log
\* entry of the batch carry it.
C31_SeqOfLastFragment ==
  /\ [](\A b \in Batches : b.seq = Last(b.seqs))
  /\ [](\A c \in 1..Len(calls) : \A e \in ChunksOf(c) :
          e.data.seq = Last(calls[c].batch.seqs))
  /\ [][\A c \in 1..Len(calls), reply \in Replies :
          TranslationReturns(c, reply)
            => Last(sessionLog').seq = Last(calls[c].batch.seqs)]_vars

\* C31 as stated: the sequence number of the most recently admitted fragment
\* of the batch that supplied one.
C31_AsStated ==
  /\ [](\A b \in Batches : b.seq = LastSupplied(b.seqs))
  /\ [](\A c \in 1..Len(calls) : \A e \in ChunksOf(c) :
          e.data.seq = LastSupplied(calls[c].batch.seqs))
  /\ [][\A c \in 1..Len(calls), reply \in Replies :
          TranslationReturns(c, reply)
            => Last(sessionLog').seq = LastSupplied(calls[c].batch.seqs)]_vars

\* A batch took the fragment numbered 2 and then the one numbered 1: its
\* chunk and its log entry say 1.
C31_Witness ==
  \E c \in 1..Len(calls) :
    /\ calls[c].batch.seqs = << <<2>>, <<1>> >>
    /\ \E e \in ChunksOf(c) : e.data.seq = <<1>>
    /\ \E i \in 1..Len(sessionLog) : sessionLog[i].seq = <<1>>

\* The timestamp a batch has after the fragments with these: that of the
\* first fragment whose ts is truthy, and with none such that of the last.
FirstTruthy(stamps) ==
  LET given == {i \in 1..Len(stamps) : ~Falsy(stamps[i])}
  IN IF given = {} THEN Last(stamps) ELSE stamps[Min(given)]

\* The batch of a language is the same one before and after the step.
SameBatch(lk) ==
  /\ Has(pendingByLang, lk)
  /\ Has(pendingByLang', lk)
  /\ FirstOf(pendingByLang'[lk]) = FirstOf(pendingByLang[lk])

\* C32 (as amended): the timestamp of a batch is that of its first fragment
\* that supplied a non-zero one (with none such, that of its last fragment),
\* and once it is non-zero no later fragment changes it; the ts of the chunk
\* is the batch's timestamp, or the time of the broadcast when it has none.
C32_FirstSuppliedTimestamp ==
  /\ [](\A b \in Batches : b.ts = FirstTruthy(b.stamps))
  /\ [][\A lk \in IngestLangs :
          (SameBatch(lk) /\ ~Falsy(pendingByLang[lk].ts))
            => pendingByLang'[lk].ts = pendingByLang[lk].ts]_vars
  /\ [][\A c \in 1..Len(calls), reply \in Replies :
          TranslationReturns(c, reply)
            => \A id \in LiveOf(calls[c].lang) :
                 /\ GetsChunk(id, c)
                 /\ Last(wire'[id]).data.ts
                      = (IF FirstTruthy(calls[c].batch.stamps) = << >>
                           THEN <<clock>>
                           ELSE FirstTruthy(calls[c].batch.stamps))]_vars

\* C32 as stated: the ts of a chunk is the timestamp of the first fragment of
\* its batch, and later fragments never change the batch's timestamp.
C32_AsStated ==
  /\ [](\A b \in Batches : b.ts = b.stamps[1])
  /\ [][\A lk \in IngestLangs :
          SameBatch(lk) => pendingByLang'[lk].ts = pendingByLang[lk].ts]_vars
  /\ [](\A c \in 1..Len(calls) : \A e \in ChunksOf(c) :
          calls[c].batch.stamps[1] # << >>
            => e.data.ts = calls[c].batch.stamps[1])

\* A batch whose first fragment had timestamp 5 took a fragment with 7, and
\* its chunk says 5.
C32_Witness ==
  \E c \in 1..Len(calls) :
    /\ calls[c].batch.stamps = << <<5>>, <<7>> >>
    /\ \E e \in ChunksOf(c) : e.data.ts = <<5>>

\* The pings written to a connection, in order.
PingsOf(w) == SelectSeq(w, LAMBDA e : e.event = "ping")

\* Every registry entry has its interval running, due within 15000 ms; the
\* pings of its connection were written at the ends of the intervals counted
\* from its connect, none left out; and while writes to it succeed, the next
\* is written when the current interval ends.
BeatsOnTime ==
  \A id \in DOMAIN sseClients :
    LET p == PingsOf(wire[id])
        at == sseClients[id].connectedAt
    IN /\ id \in hbTimers
       /\ Has(hbLeft, id)
       /\ hbLeft[id] \in 0..HEARTBEAT_MS
       /\ \A k \in 1..Len(p) : p[k].data.t = at + k * HEARTBEAT_MS
       /\ conn[id] = "live" =>
            clock + hbLeft[id] = at + (Len(p) + 1) * HEARTBEAT_MS

\* The interval of a connection has fired: it was due and no longer is.
BeatFired(id) ==
  /\ Has(hbLeft, id)
  /\ hbLeft[id] = 0
  /\ ~Has(hbLeft', id) \/ hbLeft'[id] # 0

\* No time passes over a heartbeat that is due, and when it fires (the
\* connection not being closed) a live subscriber is written a ping and stays,
\* whatever the pending batches and the translations under way, and one
\* whose write fails is out of the registry, its interval cleared.
BeatPingsOrPrunes ==
  \A id \in DOMAIN sseClients :
    /\ (Has(hbLeft, id) /\ hbLeft[id] = 0) => clock' = clock
    /\ (BeatFired(id) /\ Has(conn', id)) =>
         IF conn[id] = "live"
           THEN /\ wire'[id] = Append(wire[id], PingEvent(clock))
                /\ Has(sseClients', id)
                /\ UNCHANGED <<pipeline, calls, output>>
           ELSE /\ ~Has(sseClients', id)
                /\ id \notin hbTimers'
                /\ wire'[id] = wire[id]

\* A registered subscriber whose connection is broken.
Unreachable(id) == Has(sseClients, id) /\ conn[id] = "broken"

\* C33: every registered subscriber is written a ping at the end of each
\* heartbeat interval (15000 ms after its connect and every 15000 ms from
\* then on), whatever the translation traffic; a subscriber whose write
\* fails is removed by its next heartbeat at the latest, which is never
\* more than one interval away; so a broken connection that is never closed
\* and whose language is never broadcast to is eventually out of the registry
\* (here: whenever its next heartbeat falls within the time the run covers).
C33_HeartbeatPingsAndPrunes ==
  /\ []BeatsOnTime
  /\ [][BeatPingsOrPrunes]_vars
  /\ \A id \in 1..MaxClients :
       (Unreachable(id) /\ clock + hbLeft[id] <= MaxBeatClock)
         ~> ~Has(sseClients, id)

\* A subscriber of the language nobody speaks broke, was never closed, and is
\* out of the registry with its interval cleared, while another got its ping
\* with a translation under way.
C33_Witness ==
  \E dead \in DOMAIN conn, alive \in DOMAIN sseClients, c \in 1..Len(calls) :
    /\ conn[dead] = "broken"
    /\ LangOf(dead) # BurstLang
    /\ ~Has(sseClients, dead)
    /\ dead \notin hbTimers
    /\ conn[alive] = "live"
    /\ calls[c].status = "pending"
    /\ \E i \in 1..Len(wire[alive]) :
         /\ wire[alive][i].event = "ping"
         /\ wire[alive][i].data.t >= calls[c].flushStartMs

\* C34: a heartbeat interval is active only for client ids that are in the
\* registry: whatever removes an entry (close, a failed heartbeat write, a
\* failed write of a broadcast) clears its interval too, so no ping is ever
\* attempted for a removed subscriber.
C34_HeartbeatOnlyForRegistered ==
  /\ hbTimers \subseteq DOMAIN sseClients
  /\ DOMAIN hbLeft \subseteq DOMAIN sseClients

\* The calls whose translation has returned; each pushed one log entry when
\* it did, and took the next event id for its chunk.
Returned == {c \in 1..Len(calls) : calls[c].status = "done"}

\* Where the entry of a returned call is in the log (nothing evicted yet).
LogIndex(c) ==
  Cardinality({d \in Returned : calls[d].chunkId <= calls[c].chunkId})

\* C35: the log entries of one language are in the order their batches were
\* flushed: of two returned calls of a language the entry of the one made
\* first comes first in the session log, whichever returned first.
C35_LogInFlushOrder ==
  \A a, b \in Returned :
    /\ LogIndex(a) <= Len(sessionLog)
    /\ sessionLog[LogIndex(a)].lang = calls[a].lang
    /\ sessionLog[LogIndex(a)].sourceText = calls[a].sourceText
    /\ sessionLog[LogIndex(a)].translatedText = calls[a].translated
    /\ (a < b /\ calls[a].lang = calls[b].lang) => LogIndex(a) < LogIndex(b)

\* In every window of every key the limiter has counted at least one request
\* and handed the handler the first INGEST_LIMIT of them, no more; a window
\* ends INGEST_WINDOW_MS after the request that began it.
WindowsWithinLimit ==
  \A k \in DOMAIN rateLimits :
    /\ rateLimits[k].count >= 1
    /\ rateLimits[k].reached <= INGEST_LIMIT
    /\ rateLimits[k].reached = Min({rateLimits[k].count, INGEST_LIMIT})
    /\ rateLimits[k].resetAt <= clock + INGEST_WINDOW_MS

\* The keys whose request a step has counted.
Asked ==
  {k \in DOMAIN rateLimits' :
     IF Has(rateLimits, k) THEN rateLimits'[k] # rateLimits[k] ELSE TRUE}

\* The request of the step reaches the handler and is answered by it.
ReachesHandler == nIngest' = nIngest + 1 /\ http'.status = 200

\* The request of the step is turned away: 429 and nothing else changes.
TurnedAway ==
  /\ http' = TooManyRequests
  /\ UNCHANGED <<pipeline, calls, output, registry, admin, nIngest, clock>>

\* A request inside the window of its key (up to and at resetAt) is counted in
\* that window, reaches the handler if fewer than INGEST_LIMIT were counted
\* before it and is turned away otherwise; a request with no window, or after
\* resetAt, begins one with count 1 and reaches the handler. No request
\* touches the window of another key.
FixedWindow ==
  \A k \in Asked :
    /\ \A o \in DOMAIN rateLimits \ {k} :
         Has(rateLimits', o) /\ rateLimits'[o] = rateLimits[o]
    /\ IF Has(rateLimits, k) /\ clock <= rateLimits[k].resetAt
         THEN /\ rateLimits'[k].count = rateLimits[k].count + 1
              /\ rateLimits'[k].resetAt = rateLimits[k].resetAt
              /\ IF rateLimits[k].count < INGEST_LIMIT
                   THEN ReachesHandler
                   ELSE TurnedAway
         ELSE /\ rateLimits'[k].count = 1
              /\ rateLimits'[k].resetAt = clock + INGEST_WINDOW_MS
              /\ ReachesHandler

\* C36: rateLimit is a fixed-window limiter per (address, path): of the
\* requests counted from the first of a window at most `limit` (30 for
\* /ingest) reach the handler, every further one in the window is answered
\* 429 and changes nothing of the pipeline (no batch, no timer), and the
\* first request after the window's end begins a new window with count 1.
C36_FixedWindowLimiter ==
  /\ []WindowsWithinLimit
  /\ [][FixedWindow]_vars

\* The busy client is in a window that is not its first, has been turned away
\* in it with a subscriber listening and no batch open, after 30 of its
\* requests had reached the handler in each window.
C36_Witness ==
  LET key == RateKey(BusyClient, INGEST_PATH)
  IN /\ Has(rateLimits, key)
     /\ rateLimits[key].count > INGEST_LIMIT
     /\ rateLimits[key].reached = INGEST_LIMIT
     /\ rateLimits[key].resetAt > 2 * INGEST_WINDOW_MS
     /\ nIngest >= 2 * INGEST_LIMIT
     /\ http = TooManyRequests
     /\ sseClients # EmptyMap
     /\ pendingByLang = EmptyMap
     /\ timers = EmptyMap
     /\ Len(calls) > 0

\* The languages with a debounce timeout are those with a pending batch, and
\* the timeout recorded for a language is an active debounce timeout of it.
TimerIffBatch ==
  /\ DOMAIN timerByLang = DOMAIN pendingByLang
  /\ \A l \in DOMAIN timerByLang :
       /\ Has(timers, timerByLang[l])
       /\ timers[timerByLang[l]].kind = "debounce"
       /\ timers[timerByLang[l]].lang = l

\* A /status response lists the languages with a pending batch, which are
\* the languages with a debounce timeout.
StatusListsPending ==
  statusHttp' # statusHttp =>
    /\ statusHttp'.pendingLangs = DOMAIN pendingByLang
    /\ statusHttp'.pendingLangs = DOMAIN timerByLang

\* C37: between any two operations timerByLang and pendingByLang have the same
\* keys: a language has an armed debounce timeout exactly when it has a
\* pending batch, and pendingLangs of /status lists exactly those languages.
C37_TimerIffBatch ==
  /\ []TimerIffBatch
  /\ [][StatusListsPending]_vars

\* /status has just listed the one language that has a batch and a timeout.
C37_Witness ==
  /\ statusHttp.status = 200
  /\ statusHttp.pendingLangs # {}
  /\ statusHttp.pendingLangs = DOMAIN timerByLang
  /\ statusHttp.pendingLangs = DOMAIN pendingByLang

\* The calls that are over with a step, by how they ended.
Ended(how) ==
  {c \in 1..Len(calls) : calls[c].status = "pending" /\ calls'[c].status = how}

\* The counter moves only with the return of a translateText call, by one for
\* that one call; a call that throws, and every other step, leaves it.
CountedOncePerReturn ==
  /\ Len(calls') >= Len(calls)
  /\ Cardinality(Ended("done")) <= 1
  /\ totalChunksTranslated' =
       totalChunksTranslated + Cardinality(Ended("done"))
  /\ Ended("failed") # {} => totalChunksTranslated' = totalChunksTranslated

\* C38: totalChunksTranslated goes up by one with every translateText call
\* that returns (without throwing) and with nothing else, and in every state
\* another operation can see the session log has min(totalChunksTranslated,
\* 1000) entries.
C38_CounterAndLogLength ==
  /\ [](Len(sessionLog) = Min({totalChunksTranslated, LOG_MAX}))
  /\ [][CountedOncePerReturn]_vars

\* The counter has passed 1000 with the log full, a call having thrown and
\* another returned in this run.
C38_Witness ==
  /\ totalChunksTranslated > LOG_MAX
  /\ Len(sessionLog) = LOG_MAX
  /\ \E c \in 1..Len(calls) : calls[c].status = "failed"
  /\ \E c \in 1..Len(calls) : calls[c].status = "done"

====
